---- MODULE Spec2Model ----
(***************************************************************************)
(* winminer: the live-API session (WebsocketClient), its two background    *)
(* goroutines, Read, close, the handshake of newWebsocketClient and the    *)
(* APIClient that owns the session.                                        *)
(*                                                                         *)
(* A session is a record of sess; the goroutine of the caller that calls   *)
(* Read (and close once more on a closed session) is rd; the APIClient     *)
(* (its held session, the call that holds its wsLock and the position of   *)
(* that call) is api.  Errors are sequences of messages, outermost wrap    *)
(* first; <<>> is nil.                                                     *)
(*                                                                         *)
(* A LiveState is ls (its machine list, its timestamp map and its mutex);  *)
(* heap holds the backing arrays of the machines' Devices slices; callers  *)
(* are the goroutines calling the LiveState; serial is the LiveState that  *)
(* executing their calls one at a time, in the order they took the mutex,  *)
(* yields; ret is the call that returned last.                             *)
(*                                                                         *)
(* rx is one transport's frames in the order they arrived (frames), how    *)
(* many of them Read has returned (read), and the goroutine calling        *)
(* ReadNextInterestingMessages: where it is, how many frames had been read *)
(* when it called (from), what the last call returned (out) and the        *)
(* envelopes returned so far (delivered).                                  *)
(*                                                                         *)
(* chan is the channel identifier isInteresting was called with last and   *)
(* what the call did; dec is the method invocation the decoders were       *)
(* called with last and what each of them returned.                        *)
(*                                                                         *)
(* main is the example program (cmd/main): where it is, the invocations of *)
(* the envelope it is working through (msgs), the iterations of its loop   *)
(* it has completed (i) and the error it panicked with (err).  Its session *)
(* is api's, its frames are rx's and its LiveState is ls.                  *)
(***************************************************************************)
EXTENDS Integers, Sequences, FiniteSets, TLC

\* ----------------------------------------------------------------- bounds
MaxSessions == 2        \* sessions one APIClient creates
MaxTicks == 2           \* ticks of the tickers, all sessions together
FairSessions == 1       \* sessions created in the behaviours checked for liveness
MaxMachines == 2        \* machines a LiveState holds
MaxCallers == 2         \* goroutines calling one LiveState

Sessions == 1..MaxSessions

\* time.Now().UnixNano() values the handshake may see
NowNanos == {2000000, 2999999}

VARIABLES sess, rd, api, panic, ls, heap, callers, serial, ret, rx, chan, dec, main

vars == <<sess, rd, api, panic, ls, heap, callers, serial, ret, rx, chan, dec, main>>

\* The variables of the session and the APIClient, and those of the
\* LiveState; rx is the transport's frames and the reader of them.
wsVars == <<sess, rd, api, panic>>

liveVars == <<ls, heap, callers, serial, ret>>

\* The variables of the calls of the codec's functions.
codecVars == <<chan, dec>>

\* What the steps of the session leave alone.
notWs == <<liveVars, rx, codecVars, main>>

\* What the steps of the LiveState leave alone.
notLive == <<wsVars, rx, codecVars, main>>

\* What the steps of ReadNextInterestingMessages leave alone.
notRx == <<wsVars, liveVars, codecVars, main>>

\* What the calls of the codec's functions leave alone.
notCodec == <<wsVars, liveVars, rx, main>>

nil == <<>>

\* errors.Wrap(err, msg): nil stays nil
Wrap(err, msg) == IF err = nil THEN nil ELSE <<msg>> \o err

\* errors.New(msg)
New(msg) == <<msg>>

\* ------------------------------------------------------------ the session
\* A WebsocketClient that newWebsocketClient has not built yet.
NoSession ==
  [ ws |-> "nil", wsLock |-> "free", inOp |-> {}, wg |-> 0,
    closed |-> FALSE, err |-> "nil",
    ping |-> "none", ka |-> "none", pingT |-> FALSE, kaT |-> FALSE,
    nonce |-> 0, nonceLog |-> <<>>, currentNonce |-> 0, kaLog |-> <<>> ]

\* The WebsocketClient newWebsocketClient returns: both channels made, the
\* transport open, both goroutines added to wg and waiting in their select.
NewSession(nonce, log) ==
  [ NoSession EXCEPT !.ws = "open", !.wg = 2, !.err = "open",
                     !.ping = "select", !.ka = "select",
                     !.nonce = nonce, !.nonceLog = log, !.currentNonce = 1 ]

Running == panic = "none"

\* The ticks session s has had: the pings and keep-alive writes made and
\* the ticks waiting to be taken.
TicksOf(s) ==
  (IF sess[s].nonceLog = <<>> THEN 0 ELSE Len(sess[s].nonceLog) - 2)
  + Len(sess[s].kaLog)
  + (IF sess[s].pingT THEN 1 ELSE 0) + (IF sess[s].kaT THEN 1 ELSE 0)
  + (IF sess[s].ka = "lock" THEN 1 ELSE 0)

RECURSIVE TicksUpTo(_)
TicksUpTo(s) == IF s = 0 THEN 0 ELSE TicksOf(s) + TicksUpTo(s - 1)

Ticks == TicksUpTo(MaxSessions)

\* ----------------------------------------------------- the LiveState's data
Callers == 1..MaxCallers

SIDs == {"m1", "m2"}

DeviceIDs == {"d1", "d2"}

\* DeviceStatus.Status codes an update may carry
Statuses == {0, 8}

\* time.Now() values Update may see
Times == {1, 2}

\* A DeviceEntry as the caller builds it
Device(id) == [ID |-> id, Enabled |-> TRUE, Status |-> 0]

\* The backing arrays of the Devices slices the caller passes in: a
\* MachineEntry's Devices is a reference to one of them.
DeviceArrays == << <<Device("d1"), Device("d2")>>, <<Device("d2")>> >>

Addrs == DOMAIN DeviceArrays

\* The MachineEntry values the caller passes in
MachineEntries == [SID : SIDs, Devices : Addrs]

\* MachineEntry{SID: sid, Devices: the slice of array a}
MachineEntry(sid, a) == [SID |-> sid, Devices |-> a]

\* The []MachineEntry values the caller passes in: no machine, one, two
\* with arrays of their own, two that share an array, and two with one SID
Snapshots ==
  { <<>>,
    <<MachineEntry("m1", 1)>>,
    <<MachineEntry("m1", 1), MachineEntry("m2", 2)>>,
    <<MachineEntry("m1", 1), MachineEntry("m2", 1)>>,
    <<MachineEntry("m1", 2), MachineEntry("m1", 1)>> }

\* make(map[string]time.Time)
EmptyMap == [id \in {} |-> 0]

\* m[id] = t
MapSet(m, id, t) ==
  [x \in DOMAIN m \cup {id} |-> IF x = id THEN t ELSE m[x]]

\* The index of the first machine with the SID, 0 when there is none:
\* for i, m := range machines { if m.SID == sid
FirstMachine(machines, sid) ==
  IF \E i \in DOMAIN machines : machines[i].SID = sid
  THEN CHOOSE i \in DOMAIN machines :
         /\ machines[i].SID = sid
         /\ \A k \in 1..(i - 1) : machines[k].SID # sid
  ELSE 0

\* The index of the first device with the id, 0 when there is none:
\* for j, d := range m.Devices { if d.ID == id
FirstDevice(devices, id) ==
  IF \E j \in DOMAIN devices : devices[j].ID = id
  THEN CHOOSE j \in DOMAIN devices :
         /\ devices[j].ID = id
         /\ \A k \in 1..(j - 1) : devices[k].ID # id
  ELSE 0

\* A goroutine that is in no LiveState call.
Idle == [pc |-> "idle", arg |-> <<>>, i |-> 0, j |-> 0, now |-> 0]

\* No LiveState call has returned since the mutex was last taken.
NoReturn == [op |-> "none", err |-> nil, arg |-> <<>>]

\* NewLiveState, and the arrays as the caller built them
NewLiveState == [machines |-> <<>>, devicesLastUpdated |-> EmptyMap, l |-> 0]

\* ------------------------------------------------- the frames of the transport
MaxFrames == 3          \* frames that arrive on the transport

\* websocket.TextMessage and websocket.BinaryMessage
TextMessage == 1

BinaryMessage == 2

\* len(b) < 10
MinLength == 10

\* Channel identifiers, as the sequences of their characters:
\* "1,1,2,2,1" and "7,7,25,2b,7" (relevant), "1,1,2,3,1" (other digit),
\* "1,1,x,2,1" (no digit), "1,1,2,2" (four parts), "1,1,,2,1" (empty part)
Channels ==
  { <<"1", ",", "1", ",", "2", ",", "2", ",", "1">>,
    <<"7", ",", "7", ",", "2", "5", ",", "2", "b", ",", "7">>,
    <<"1", ",", "1", ",", "2", ",", "3", ",", "1">>,
    <<"1", ",", "1", ",", "x", ",", "2", ",", "1">>,
    <<"1", ",", "1", ",", "2", ",", "2">>,
    <<"1", ",", "1", ",", ",", "2", ",", "1">> }

\* The bytes of a frame: their number, whether they are well-formed JSON,
\* and the "C" and "M" fields of the JSON object.  {"C":"","M":[]} has 15
\* bytes.
Envelope(c) == [len |-> 15 + Len(c), json |-> TRUE, C |-> c, M |-> <<>>]

\* {"C":"1"}, and bytes that are no JSON
Bodies ==
  {Envelope(c) : c \in Channels}
    \cup {[len |-> 9, json |-> TRUE, C |-> <<"1">>, M |-> <<>>],
          [len |-> 12, json |-> FALSE, C |-> <<>>, M |-> <<>>]}

\* The frames that arrive: text frames with any of the bodies, and binary
\* frames carrying a relevant envelope
Frames ==
  [mType : {TextMessage}, b : Bodies]
    \cup [mType : {BinaryMessage},
          b : {Envelope(<<"1", ",", "1", ",", "2", ",", "2", ",", "1">>)}]

\* No ReadNextInterestingMessages call has returned.
NoResult == [msg |-> <<>>, err |-> nil]

\* ------------------------------------------------ the channel identifiers
MaxChannelLen == 7      \* characters of a channel identifier

\* The characters of the channel identifiers isInteresting is called with:
\* the digit 2, another digit, a character that is no digit, the separator
ChannelChars == {"2", "7", "x", ","}

\* isInteresting has not been called.
NotCalled == [panic |-> FALSE, v |-> FALSE]

\* ------------------------------------------------- the method invocations
MaxArgs == 4            \* arguments of a method invocation

\* The Method* constants of the five decoders, and one no decoder expects
Methods ==
  {"SetSystemInfo", "StatusChanged", "StateChanged", "AppClosed",
   "ClientConnected", "AddMessage"}

\* A json.RawMessage: the kind of JSON value its bytes are and, by kind,
\* the string, the boolean, or the members "status", "sid" and "devices"
\* of the object (a member the object does not have: the zero value).
JNull ==
  [kind |-> "null", s |-> "", b |-> FALSE, status |-> 0, sid |-> "",
   devices |-> <<>>]

JString(s) == [JNull EXCEPT !.kind = "string", !.s = s]

JBool(b) == [JNull EXCEPT !.kind = "bool", !.b = b]

\* {"status": status}
JStatus(status) == [JNull EXCEPT !.kind = "object", !.status = status]

\* {"sid": sid, "devices": [...]}
JMachine(sid, devices) ==
  [JNull EXCEPT !.kind = "object", !.sid = sid, !.devices = devices]

\* The arguments the invocations carry
Arguments ==
  {JString("m1"), JString("d2"), JBool(TRUE), JStatus(8),
   JMachine("m1", <<Device("d1"), Device("d2")>>), JNull}

\* RawMessage{Method: "", Arguments: nil}
NoMessage == [Method |-> "", Arguments |-> <<>>]

\* No decoder has been called.
NotDecoded == [rec |-> <<>>, err |-> nil, decoded |-> 0]

Init ==
  /\ sess = [s \in Sessions |-> NoSession]
  /\ rd = [pc |-> "idle", s |-> 0, err |-> nil, read |-> FALSE,
           call |-> "none"]
  /\ api = [ws |-> 0, op |-> "none", pc |-> "idle", n |-> 0,
            nonce |-> 0, nonceLog |-> <<>>, steps |-> <<>>, conn |-> "nil",
            reply |-> "",
            last |-> [op |-> "none", err |-> nil, ws |-> 0, hs |-> FALSE]]
  /\ panic = "none"
  /\ ls = NewLiveState
  /\ heap = DeviceArrays
  /\ callers = [p \in Callers |-> Idle]
  /\ serial = [machines |-> <<>>, devicesLastUpdated |-> EmptyMap,
               heap |-> DeviceArrays]
  /\ ret = NoReturn
  /\ rx = [frames |-> <<>>, read |-> 0, pc |-> "idle", from |-> 0,
           out |-> NoResult, delivered |-> <<>>]
  /\ chan = [Channel |-> <<>>, calls |-> 0, out |-> NotCalled]
  /\ dec = [msg |-> NoMessage, calls |-> 0,
            out |-> [ClientConnected |-> NotDecoded, AppClosed |-> NotDecoded,
                     StateChanged |-> NotDecoded,
                     StatusChanged |-> NotDecoded,
                     SystemInfo |-> NotDecoded]]
  /\ main = [pc |-> "loop", msgs |-> <<>>, i |-> 0, err |-> nil]

\* ------------------------------------------------------ the low-level calls
\* What lowLevelClient.do can return: nil or a failure of the request.
DoErrs == {nil, <<"unable to perform request">>}

\* The Response field of a GenericSignalrResponse the host may send.
Responses == {"started", "pong"}

auth2(doErr) == Wrap(doErr, "unable to auth2")

negotiate(doErr) == Wrap(doErr, "unable to negotiate")

connect(dialErr) == Wrap(dialErr, "unable to open WebSockets connection")

startAnyReply(doErr, response) == Wrap(doErr, "unable to start")

\* lowLevelClient.start: the request, then the reply must be "started"
start(doErr, response) ==
  IF doErr # nil THEN Wrap(doErr, "unable to start")
  ELSE IF response # "started" THEN New("did not receive a started response")
  ELSE nil

ping(doErr, response) ==
  IF doErr # nil THEN Wrap(doErr, "unable to ping")
  ELSE IF response # "pong" THEN New("did not receive a pong response")
  ELSE nil

\* ------------------------------------------------------------ the APIClient
\* The pcs of a call inside newWebsocketClient.
HandshakePcs == {"auth2", "negotiate", "connect", "start"}

\* The call holding APIClient.wsLock returns err and ws and unlocks; the
\* locals of newWebsocketClient are gone.  hs tells whether the call
\* returns from a handshake.
Return(a, op, err, ws) ==
  [a EXCEPT !.op = "none", !.pc = "idle", !.nonce = 0, !.nonceLog = <<>>,
            !.last = [op |-> op, err |-> err, ws |-> ws,
                      hs |-> a.pc \in HandshakePcs]]

\* newWebsocketClient up to its first call: the nonce is the time in
\* milliseconds.
newWebsocketClient(a, op, now) ==
  [a EXCEPT !.op = op, !.pc = "auth2", !.nonce = now \div 1000000,
            !.nonceLog = <<>>, !.steps = <<>>, !.conn = "nil", !.reply = ""]

HandshakeFailedClosing(a, step, err) ==
  Return([a EXCEPT !.steps = Append(@, step),
                   !.conn = IF @ = "open" THEN "closed" ELSE @], a.op,
         Wrap(err, "unable to connect websocket"), 0)

\* A step of newWebsocketClient failed: connectWebsocket wraps what
\* newWebsocketClient returns, and the exported call returns it.  The
\* transport conn, if the connect step opened it, is left as it is.
HandshakeFailed(a, step, err) ==
  Return([a EXCEPT !.steps = Append(@, step)], a.op,
         Wrap(err, "unable to connect websocket"), 0)

heldNever(a) == FALSE

\* connectWebsocket: c.ws != nil
held(a) == a.ws # 0

ConnectWebsocket ==
  /\ Running /\ api.op = "none"
  /\ IF held(api)
     THEN api' = Return(api, "ConnectWebsocket", nil, api.ws)
     ELSE /\ api.n < MaxSessions
          /\ \E now \in NowNanos :
               api' = newWebsocketClient(api, "ConnectWebsocket", now)
  /\ UNCHANGED <<notWs, sess, rd, panic>>

CloseWebsocketForgets ==
  /\ Running /\ api.op = "none"
  /\ api' = IF api.ws = 0
            THEN Return(api, "CloseWebsocket", New("websocket not connected"), 0)
            ELSE Return([api EXCEPT !.ws = 0], "CloseWebsocket", nil, 0)
  /\ UNCHANGED <<notWs, sess, rd, panic>>

\* CloseWebsocket takes APIClient.wsLock; closeWebsocket returns the error
\* when no session is held and calls c.ws.close() otherwise.
CloseWebsocket ==
  /\ Running /\ api.op = "none"
  /\ api' = IF api.ws = 0
            THEN Return(api, "CloseWebsocket", New("websocket not connected"), 0)
            ELSE [api EXCEPT !.op = "CloseWebsocket", !.pc = "close"]
  /\ UNCHANGED <<notWs, sess, rd, panic>>

ReconnectWithoutClose ==
  /\ Running /\ api.op = "none"
  /\ api.n < MaxSessions
  /\ \E now \in NowNanos :
       api' = newWebsocketClient(api, "ReconnectWebsocket", now)
  /\ UNCHANGED <<notWs, sess, rd, panic>>

ReconnectWebsocket ==
  /\ Running /\ api.op = "none"
  /\ api.n < MaxSessions
  /\ IF api.ws = 0
     THEN \E now \in NowNanos :
            api' = newWebsocketClient(api, "ReconnectWebsocket", now)
     ELSE api' = [api EXCEPT !.op = "ReconnectWebsocket", !.pc = "close"]
  /\ UNCHANGED <<notWs, sess, rd, panic>>

Auth2 ==
  /\ Running /\ api.pc = "auth2"
  /\ \E doErr \in DoErrs :
       LET err == auth2(doErr) IN
       api' = IF err # nil
              THEN HandshakeFailed(api, "auth2", Wrap(err, "unable to auth2"))
              ELSE [api EXCEPT !.steps = Append(@, "auth2"), !.pc = "negotiate"]
  /\ UNCHANGED <<notWs, sess, rd, panic>>

Negotiate ==
  /\ Running /\ api.pc = "negotiate"
  /\ \E doErr \in DoErrs :
       LET err == negotiate(doErr)
           a == [api EXCEPT !.nonceLog = Append(@, api.nonce)] IN
       api' = IF err # nil
              THEN HandshakeFailed(a, "negotiate", Wrap(err, "unable to negotiate"))
              ELSE [a EXCEPT !.steps = Append(@, "negotiate"), !.pc = "connect",
                             !.nonce = @ + 1]
  /\ UNCHANGED <<notWs, sess, rd, panic>>

Connect ==
  /\ Running /\ api.pc = "connect"
  /\ \E dialErr \in DoErrs :
       LET err == connect(dialErr) IN
       api' = IF err # nil
              THEN HandshakeFailed(api, "connect", Wrap(err, "unable to connect"))
              ELSE [api EXCEPT !.steps = Append(@, "connect"), !.pc = "start",
                               !.conn = "open"]
  /\ UNCHANGED <<notWs, sess, rd, panic>>

\* start, and on success the two goroutines and the return of the session.
Start ==
  /\ Running /\ api.pc = "start"
  /\ \E doErr \in DoErrs, response \in Responses :
       LET err == start(doErr, response)
           a == [api EXCEPT !.nonceLog = Append(@, api.nonce),
                            !.reply = IF doErr = nil THEN response ELSE ""]
           s == api.n + 1 IN
       IF err # nil
       THEN /\ api' = HandshakeFailed(a, "start", Wrap(err, "unable to start"))
            /\ sess' = sess
       ELSE /\ sess' = [sess EXCEPT ![s] = NewSession(a.nonce, a.nonceLog)]
            /\ api' = Return([a EXCEPT !.steps = Append(@, "start"),
                                       !.ws = s, !.n = s], a.op, nil, s)
  /\ UNCHANGED <<notWs, rd, panic>>

\* ------------------------------------------------------------------ close
closeWebsocketKeepsSession(a) == a

\* closeWebsocket after c.ws.close() has returned: c.ws = nil.
closeWebsocketDone(a) == [a EXCEPT !.ws = 0]

\* c.ws.close() returned: CloseWebsocket returns nil, ReconnectWebsocket goes
\* on to connectWebsocket, which finds no session and starts the handshake.
closeReturned ==
  LET a == closeWebsocketDone(api) IN
  IF api.op = "CloseWebsocket"
  THEN api' = Return(a, "CloseWebsocket", nil, 0)
  ELSE IF held(a)
  THEN api' = Return(a, "ReconnectWebsocket", nil, a.ws)
  ELSE \E now \in NowNanos :
         api' = newWebsocketClient(a, "ReconnectWebsocket", now)

closedNeverSeen(c) == FALSE

\* case <-c.closed: of the select in close
closedSignalled(c) == c.closed

\* The select on c.closed and close(c.closed), which panics on a channel
\* that is closed.
closeSelect ==
  /\ Running /\ api.pc = "close"
  /\ LET s == api.ws IN
     IF closedSignalled(sess[s])
     THEN closeReturned /\ sess' = sess /\ panic' = panic
     ELSE IF sess[s].closed
     THEN panic' = "close of closed channel" /\ UNCHANGED <<sess, api>>
     ELSE /\ sess' = [sess EXCEPT ![s].closed = TRUE]
          /\ api' = [api EXCEPT !.pc = "wait"]
          /\ panic' = panic
  /\ UNCHANGED <<notWs, rd>>

\* A close() call on session s by the caller of Read has returned.
closeReturns(s) ==
  [pc |-> "idle", s |-> s, err |-> nil, read |-> FALSE, call |-> "close"]

closeAgainUnchecked(s) ==
  /\ Running /\ rd.pc = "idle" /\ s \in 1..api.n
  /\ sess[s].err = "closed"
  /\ panic' = "close of closed channel"
  /\ UNCHANGED <<notWs, sess, rd, api>>

\* close() is called on session s once more, by the caller in the package
\* that calls Read, after a close() of s has returned (close(c.err) is its
\* last statement): the select, and close(c.closed) if the select does not
\* return.
closeAgain(s) ==
  /\ Running /\ rd.pc = "idle" /\ s \in 1..api.n
  /\ sess[s].err = "closed"
  /\ IF closedSignalled(sess[s])
     THEN rd' = closeReturns(s) /\ panic' = panic
     ELSE rd' = rd /\ panic' = "close of closed channel"
  /\ UNCHANGED <<notWs, sess, api>>

closeNoWait ==
  /\ Running /\ api.pc = "wait"
  /\ api' = [api EXCEPT !.pc = "lock"]
  /\ UNCHANGED <<notWs, sess, rd, panic>>

\* c.wg.Wait()
closeWait ==
  /\ Running /\ api.pc = "wait"
  /\ sess[api.ws].wg = 0
  /\ api' = [api EXCEPT !.pc = "lock"]
  /\ UNCHANGED <<notWs, sess, rd, panic>>

\* c.wsLock.Lock() and the start of c.ws.Close()
closeLock ==
  /\ Running /\ api.pc = "lock"
  /\ LET s == api.ws IN
     /\ sess[s].wsLock = "free"
     /\ sess' = [sess EXCEPT ![s].wsLock = "close", ![s].inOp = @ \cup {"close"}]
  /\ api' = [api EXCEPT !.pc = "closing"]
  /\ UNCHANGED <<notWs, rd, panic>>

\* c.ws.Close() is done, c.wsLock.Unlock(), close(c.err), and close returns.
\* Closing a channel a goroutine is blocked sending on panics that goroutine.
closeFinish ==
  /\ Running /\ api.pc = "closing"
  /\ LET s == api.ws IN
     /\ sess' = [sess EXCEPT ![s].ws = "closed", ![s].wsLock = "free",
                             ![s].inOp = @ \ {"close"}, ![s].err = "closed"]
     /\ IF sess[s].ping = "send" \/ sess[s].ka = "send"
        THEN panic' = "send on closed channel" /\ api' = api
        ELSE panic' = panic /\ closeReturned
  /\ UNCHANGED <<notWs, rd>>

\* -------------------------------------------------------- the ping goroutine
\* The ticker's channel holds one tick.
PingTicker(s) ==
  /\ Running /\ sess[s].ping \in {"select", "send"}
  /\ ~sess[s].pingT
  /\ Ticks < MaxTicks
  /\ sess' = [sess EXCEPT ![s].pingT = TRUE]
  /\ UNCHANGED <<notWs, rd, api, panic>>

PingExitSending(s) ==
  /\ Running /\ sess[s].ping \in {"select", "send"}
  /\ sess[s].closed
  /\ sess' = [sess EXCEPT ![s].ping = "done", ![s].pingT = FALSE,
                          ![s].wg = @ - 1]
  /\ UNCHANGED <<notWs, rd, api, panic>>

\* case <-client.closed: t.Stop(); return, and the deferred wg.Done()
PingExit(s) ==
  /\ Running /\ sess[s].ping = "select"
  /\ sess[s].closed
  /\ sess' = [sess EXCEPT ![s].ping = "done", ![s].pingT = FALSE,
                          ![s].wg = @ - 1]
  /\ UNCHANGED <<notWs, rd, api, panic>>

pingNonceKept(n) == n

\* nonce++ before the ping
pingNonce(n) == n + 1

\* Where the goroutine is after a ping: a failed ping leaves it sending the
\* error on client.err (a send on a closed channel panics).
AfterPing(s, err) ==
  IF err = nil THEN "select"
  ELSE IF sess[s].err = "closed" THEN "panic" ELSE "send"

\* case <-t.C: nonce++ and the ping
PingFire(s) ==
  /\ Running /\ sess[s].ping = "select"
  /\ sess[s].pingT
  /\ \E doErr \in DoErrs, response \in Responses :
       LET err == ping(doErr, response)
           n == pingNonce(sess[s].nonce)
           pc == AfterPing(s, err) IN
       /\ sess' = [sess EXCEPT ![s].pingT = FALSE, ![s].nonce = n,
                     ![s].nonceLog = Append(@, n),
                     ![s].ping = IF pc = "panic" THEN "send" ELSE pc]
       /\ panic' = IF pc = "panic" THEN "send on closed channel" ELSE panic
  /\ UNCHANGED <<notWs, rd, api>>

\* -------------------------------------------------- the keep-alive goroutine
keepAliveNonceKept(n) == n

\* currentNonce++
keepAliveNonce(n) == n + 1

KeepAliveTicker(s) ==
  /\ Running /\ sess[s].ka \in {"select", "lock", "writing", "send"}
  /\ ~sess[s].kaT
  /\ Ticks < MaxTicks
  /\ sess' = [sess EXCEPT ![s].kaT = TRUE]
  /\ UNCHANGED <<notWs, rd, api, panic>>

\* case <-client.closed: t.Stop(); return, and the deferred wg.Done()
KeepAliveExit(s) ==
  /\ Running /\ sess[s].ka = "select"
  /\ sess[s].closed
  /\ sess' = [sess EXCEPT ![s].ka = "done", ![s].kaT = FALSE,
                          ![s].wg = @ - 1]
  /\ UNCHANGED <<notWs, rd, api, panic>>

\* case <-t.C: the goroutine goes to client.wsLock.Lock()
KeepAliveTake(s) ==
  /\ Running /\ sess[s].ka = "select"
  /\ sess[s].kaT
  /\ sess' = [sess EXCEPT ![s].kaT = FALSE, ![s].ka = "lock"]
  /\ UNCHANGED <<notWs, rd, api, panic>>

\* client.wsLock.Lock() and the start of WriteMessage with id currentNonce
KeepAliveLock(s) ==
  /\ Running /\ sess[s].ka = "lock"
  /\ sess[s].wsLock = "free"
  /\ sess' = [sess EXCEPT ![s].wsLock = "keepalive",
                ![s].inOp = @ \cup {"keepalive"}, ![s].ka = "writing",
                ![s].kaLog = Append(@, sess[s].currentNonce)]
  /\ UNCHANGED <<notWs, rd, api, panic>>

\* WriteMessage returns, client.wsLock.Unlock(); a failed write leaves the
\* goroutine sending the error on client.err, else currentNonce++.
KeepAliveWritten(s) ==
  /\ Running /\ sess[s].ka = "writing"
  /\ \E ok \in BOOLEAN :
       /\ ok => sess[s].ws = "open"
       /\ sess' = [sess EXCEPT ![s].wsLock = "free",
                     ![s].inOp = @ \ {"keepalive"},
                     ![s].ka = IF ok THEN "select" ELSE "send",
                     ![s].currentNonce = IF ok THEN keepAliveNonce(@) ELSE @]
       /\ panic' = IF ~ok /\ sess[s].err = "closed"
                   THEN "send on closed channel" ELSE panic
  /\ UNCHANGED <<notWs, rd, api>>

\* ------------------------------------------------------------------- Read
NoSenders(s) == {}

\* The goroutines blocked in client.err <- err: what case err := <-c.err can
\* receive from.
Senders(s) ==
  (IF sess[s].ping = "send" THEN {"ping"} ELSE {}) \cup
  (IF sess[s].ka = "send" THEN {"keepalive"} ELSE {})

ReceivedNothing(s, g) == sess

\* The sessions after Read has received the error goroutine g was sending:
\* g goes on to its select (the keep-alive goroutine after currentNonce++).
Received(s, g) ==
  IF g = "ping"
  THEN [sess EXCEPT ![s].ping = "select"]
  ELSE [sess EXCEPT ![s].ka = "select",
                    ![s].currentNonce = keepAliveNonce(@)]

\* A Read call has returned err; read tells whether it read the transport.
ReadReturns(s, err, read) ==
  [pc |-> "idle", s |-> s, err |-> err, read |-> read, call |-> "Read"]

\* Read is called: its select.  A case that can proceed is taken (any of
\* them when several can), default only when none can.  A receive from the
\* closed c.err yields nil, and errors.Wrap(nil, ...) is nil.
ReadSelect(s) ==
  /\ Running /\ rd.pc = "idle" /\ s \in 1..api.n
  /\ \/ /\ sess[s].closed
        /\ rd' = ReadReturns(s, New("ws closed"), FALSE)
        /\ sess' = sess
     \/ /\ "ping" \in Senders(s)
        /\ rd' = ReadReturns(s, Wrap(New("unable to ping signalr"),
                                     "connection broken"), FALSE)
        /\ sess' = Received(s, "ping")
     \/ /\ "keepalive" \in Senders(s)
        /\ rd' = ReadReturns(s, Wrap(New("unable to ping WSS"),
                                     "connection broken"), FALSE)
        /\ sess' = Received(s, "keepalive")
     \/ /\ sess[s].err = "closed"
        /\ rd' = ReadReturns(s, Wrap(nil, "connection broken"), FALSE)
        /\ sess' = sess
     \/ /\ ~sess[s].closed /\ Senders(s) = {} /\ sess[s].err # "closed"
        /\ rd' = [rd EXCEPT !.pc = "lock", !.s = s, !.call = "Read"]
        /\ sess' = sess
  /\ UNCHANGED <<notWs, api, panic>>

ReadNoLock ==
  /\ Running /\ rd.pc = "lock"
  /\ sess' = [sess EXCEPT ![rd.s].inOp = @ \cup {"Read"}]
  /\ rd' = [rd EXCEPT !.pc = "reading"]
  /\ UNCHANGED <<notWs, api, panic>>

\* c.wsLock.Lock() and the start of c.ws.ReadMessage()
ReadLock ==
  /\ Running /\ rd.pc = "lock"
  /\ LET s == rd.s IN
     /\ sess[s].wsLock = "free"
     /\ sess' = [sess EXCEPT ![s].wsLock = "Read", ![s].inOp = @ \cup {"Read"}]
     /\ rd' = [rd EXCEPT !.pc = "reading"]
  /\ UNCHANGED <<notWs, api, panic>>

\* ReadMessage returns a frame or an error (an error at once on a closed
\* transport), c.wsLock.Unlock(), and Read returns.
ReadMessage ==
  /\ Running /\ rd.pc = "reading"
  /\ LET s == rd.s IN
     /\ sess' = [sess EXCEPT ![s].wsLock = "free", ![s].inOp = @ \ {"Read"}]
     /\ \E err \in {nil, New("read failed")} :
          /\ err = nil => sess[s].ws = "open"
          /\ rd' = ReadReturns(s, err, TRUE)
  /\ UNCHANGED <<notWs, api, panic>>

\* ------------------------------------------------------------------- Spec
Next ==
  \/ ConnectWebsocket \/ CloseWebsocket \/ ReconnectWebsocket
  \/ Auth2 \/ Negotiate \/ Connect \/ Start
  \/ closeSelect \/ closeWait \/ closeLock \/ closeFinish
  \/ \E s \in Sessions :
       \/ PingTicker(s) \/ PingExit(s) \/ PingFire(s)
       \/ KeepAliveTicker(s) \/ KeepAliveExit(s) \/ KeepAliveTake(s)
       \/ KeepAliveLock(s) \/ KeepAliveWritten(s)
       \/ ReadSelect(s)
       \/ closeAgain(s)
  \/ ReadLock \/ ReadMessage

Spec == Init /\ [][Next]_vars

\* What the Go scheduler and sync.Mutex give the goroutines and close: a
\* step that can be taken is taken, and a goroutine waiting for wsLock gets
\* it.  A timer tick, a frame arriving on an open transport and the caller's
\* calls are not promised.
Scheduling ==
  /\ WF_vars(closeSelect) /\ WF_vars(closeWait)
  /\ SF_vars(closeLock) /\ WF_vars(closeFinish)
  /\ SF_vars(ReadLock)
  /\ WF_vars(ReadMessage /\ sess[rd.s].ws = "closed")
  /\ \A s \in 1..FairSessions :
       /\ WF_vars(PingExit(s)) /\ WF_vars(PingFire(s))
       /\ WF_vars(KeepAliveExit(s)) /\ WF_vars(KeepAliveTake(s))
       /\ SF_vars(KeepAliveLock(s)) /\ WF_vars(KeepAliveWritten(s))

\* The steps of Next in which no ReconnectWebsocket and no handshake begins
\* once FairSessions sessions have been created.
FairNext ==
  /\ Next
  /\ api.n >= FairSessions =>
       (api'.op # "ReconnectWebsocket" /\ api'.pc # "auth2")

FairSpec == Init /\ [][FairNext]_vars /\ Scheduling

\* The weaker promise that a step which stays possible is taken.
WeakScheduling ==
  /\ WF_vars(closeSelect) /\ WF_vars(closeWait)
  /\ WF_vars(closeLock) /\ WF_vars(closeFinish)
  /\ WF_vars(ReadLock)
  /\ \A s \in 1..FairSessions :
       /\ WF_vars(PingExit(s)) /\ WF_vars(PingFire(s))
       /\ WF_vars(KeepAliveExit(s)) /\ WF_vars(KeepAliveTake(s))
       /\ WF_vars(KeepAliveLock(s)) /\ WF_vars(KeepAliveWritten(s))

\* WeakScheduling, a caller that calls Read again whenever it can, and a
\* transport on which every ReadMessage returns.
FairReadSpec ==
  /\ Init /\ [][FairNext]_vars /\ WeakScheduling
  /\ WF_vars(ReadMessage)
  /\ \A s \in 1..FairSessions : WF_vars(ReadSelect(s))

\* ------------------------------------------- the LiveState, one call at a time
\* The operations as functions of the state st (machine list, timestamp
\* map, arrays): what a call that runs alone makes of st.
SetSystemInfo(st, entries) ==
  [st EXCEPT !.machines = entries, !.devicesLastUpdated = EmptyMap]

putLast(machines, i, entry) == Append(machines, entry)

\* s.machines[i] = entry for the machine the loop found, or the append
put(machines, i, entry) ==
  IF i # 0 THEN [machines EXCEPT ![i] = entry] ELSE Append(machines, entry)

AddMachine(st, entry) ==
  [st EXCEPT !.machines =
     put(@, FirstMachine(st.machines, entry.SID), entry)]

setStatusKept(d, status) == d

\* d.Status = container.Status
setStatus(d, status) == [d EXCEPT !.Status = status]

notFoundMachine(i) == New("machine not found")

\* The error of an Update that found machine i (0: none) and no device
notFound(i) ==
  IF i = 0 THEN New("machine not found") ELSE New("device not found")

\* Update returns the state and the error
Update(st, container, now) ==
  LET i == FirstMachine(st.machines, container.MachineSID)
      a == st.machines[i].Devices
      j == FirstDevice(st.heap[a], container.DeviceID) IN
  IF i = 0 THEN [st |-> st, err |-> notFound(0)]
  ELSE IF j = 0 THEN [st |-> st, err |-> notFound(i)]
  ELSE [st |-> [st EXCEPT
                  !.heap[a][j] = setStatus(@, container.Status),
                  !.devicesLastUpdated = MapSet(@, container.DeviceID, now)],
        err |-> nil]

\* The state of the LiveState as the functions above take it
Actual ==
  [machines |-> ls.machines, devicesLastUpdated |-> ls.devicesLastUpdated,
   heap |-> heap]

\* ---------------------------------------------- the LiveState, step by step
LockNotExclusive(p) == TRUE

\* s.l.Lock() can return
Lock(p) == ls.l = 0

\* A goroutine calls SetSystemInfo, AddMachine or Update and reaches
\* s.l.Lock()
LiveCall(p) ==
  /\ callers[p].pc = "idle"
  /\ callers' = [callers EXCEPT ![p].pc = "lock"]
  /\ UNCHANGED <<notLive, ls, heap, serial, ret>>

\* The call that takes the mutex: ret forgets the call before it
Locked(p, pc, arg) ==
  /\ callers' = [callers EXCEPT ![p] = [Idle EXCEPT !.pc = pc, !.arg = arg]]
  /\ ret' = NoReturn

\* The machine and the device an Update is for
Target(container) ==
  [MachineSID |-> container.MachineSID, DeviceID |-> container.DeviceID]

\* The deferred s.l.Unlock(), and the call returns err (arg: the target of
\* an Update)
Returned(p, op, err, arg) ==
  /\ callers' = [callers EXCEPT ![p] = Idle]
  /\ ret' = [op |-> op, err |-> err, arg |-> arg]

UnlockedEarly(p) == 0

\* The holder of the mutex between the two assignments of SetSystemInfo
StillLocked(p) == p

\* SetSystemInfo(entries) takes the mutex; s.machines = entries
SetSystemInfoLock(p) ==
  /\ callers[p].pc = "lock" /\ Lock(p)
  /\ \E entries \in Snapshots :
       /\ Locked(p, "clear", entries)
       /\ serial' = SetSystemInfo(serial, entries)
       /\ ls' = [ls EXCEPT !.machines = entries, !.l = StillLocked(p)]
  /\ UNCHANGED <<notLive, heap>>

\* s.devicesLastUpdated = make(map[string]time.Time), and the return
SetSystemInfoClear(p) ==
  /\ callers[p].pc = "clear"
  /\ ls' = [ls EXCEPT !.devicesLastUpdated = EmptyMap, !.l = 0]
  /\ Returned(p, "SetSystemInfo", nil, <<>>)
  /\ UNCHANGED <<notLive, heap, serial>>

\* AddMachine(entry) takes the mutex (the list holds at most MaxMachines
\* machines); the loop over s.machines
AddMachineLock(p) ==
  /\ callers[p].pc = "lock" /\ Lock(p)
  /\ \E entry \in MachineEntries :
       LET i == FirstMachine(ls.machines, entry.SID) IN
       /\ i # 0 \/ Len(ls.machines) < MaxMachines
       /\ Locked(p, "put", entry)
       /\ serial' = AddMachine(serial, entry)
  /\ ls' = [ls EXCEPT !.l = p]
  /\ UNCHANGED <<notLive, heap>>

\* s.machines[i] = entry for the first i with entry's SID, or the append
\* when the loop found none; the return
AddMachineWrite(p) ==
  /\ callers[p].pc = "put"
  /\ LET entry == callers[p].arg
         i == FirstMachine(ls.machines, entry.SID) IN
     ls' = [ls EXCEPT !.machines = put(@, i, entry), !.l = 0]
  /\ Returned(p, "AddMachine", nil, <<>>)
  /\ UNCHANGED <<notLive, heap, serial>>

\* Update(container) takes the mutex; the two loops, the machine and then
\* the device in it.  An Update that does not find them returns its error.
\* now is the time time.Now() will give.
UpdateLock(p) ==
  /\ callers[p].pc = "lock" /\ Lock(p)
  /\ \E sid \in SIDs, id \in DeviceIDs, status \in Statuses, now \in Times :
       LET container == [MachineSID |-> sid, DeviceID |-> id,
                         Status |-> status]
           i == FirstMachine(ls.machines, sid)
           j == IF i = 0 THEN 0
                ELSE FirstDevice(heap[ls.machines[i].Devices], id) IN
       /\ serial' = Update(serial, container, now).st
       /\ IF i = 0 \/ j = 0
          THEN /\ Returned(p, "Update", notFound(i), Target(container))
               /\ ls' = ls
          ELSE /\ callers' = [callers EXCEPT ![p] =
                                [pc |-> "write", arg |-> container,
                                 i |-> i, j |-> j, now |-> now]]
               /\ ret' = NoReturn
               /\ ls' = [ls EXCEPT !.l = p]
  /\ UNCHANGED <<notLive, heap>>

\* d.Status = container.Status; m.Devices[j] = d; s.machines[i] = m;
\* s.devicesLastUpdated[container.DeviceID] = time.Now(); return nil.
\* m is the machine the loop found (a copy: its Devices is the same array),
\* d the device it found in it.
UpdateWrite(p) ==
  /\ callers[p].pc = "write"
  /\ LET container == callers[p].arg
         i == callers[p].i
         j == callers[p].j
         a == ls.machines[i].Devices IN
     /\ heap' = [heap EXCEPT ![a][j] = setStatus(@, container.Status)]
     /\ ls' = [ls EXCEPT
                 !.devicesLastUpdated =
                    MapSet(@, container.DeviceID, callers[p].now),
                 !.l = 0]
  /\ Returned(p, "Update", nil, Target(callers[p].arg))
  /\ UNCHANGED <<notLive, serial>>

LiveNext ==
  \E p \in Callers :
    \/ LiveCall(p)
    \/ SetSystemInfoLock(p) \/ SetSystemInfoClear(p)
    \/ AddMachineLock(p) \/ AddMachineWrite(p)
    \/ UpdateLock(p) \/ UpdateWrite(p)

\* The calls of SetSystemInfo, AddMachine and Update on one LiveState by
\* the goroutines Callers
LiveSpec == Init /\ [][LiveNext]_vars

\* ------------------------------------------------------ the envelope codec
\* strings.Split(s, sep)
RECURSIVE Split(_, _)
Split(s, sep) ==
  IF \A i \in DOMAIN s : s[i] # sep THEN <<s>>
  ELSE LET i == CHOOSE i \in DOMAIN s :
                  s[i] = sep /\ \A k \in 1..(i - 1) : s[k] # sep IN
       <<SubSeq(s, 1, i - 1)>> \o Split(SubSeq(s, i + 1, Len(s)), sep)

DigitValue(ch) ==
  CASE ch = "0" -> 0 [] ch = "1" -> 1 [] ch = "2" -> 2 [] ch = "3" -> 3
    [] ch = "4" -> 4 [] ch = "5" -> 5 [] ch = "6" -> 6 [] ch = "7" -> 7
    [] ch = "8" -> 8 [] ch = "9" -> 9 [] OTHER -> -1

RECURSIVE Digits(_)
\* The value of a string of decimal digits, -1 when it is none
Digits(s) ==
  IF s = <<>> THEN -1
  ELSE LET d == DigitValue(s[Len(s)]) IN
       IF d < 0 THEN -1
       ELSE IF Len(s) = 1 THEN d
       ELSE LET hi == Digits(SubSeq(s, 1, Len(s) - 1)) IN
            IF hi < 0 THEN -1 ELSE 10 * hi + d

\* strconv.Atoi(s): an optional sign and decimal digits
Atoi(s) ==
  LET signed == s # <<>> /\ s[1] \in {"+", "-"}
      v == Digits(IF signed THEN Tail(s) ELSE s) IN
  IF v < 0 THEN [n |-> 0, err |-> New("invalid syntax")]
  ELSE [n |-> IF signed /\ s[1] = "-" THEN 0 - v ELSE v, err |-> nil]

\* id1 == 2 || id2 == 2
bothTwoEither(id1, id2) == id1 = 2 \/ id2 = 2

\* id1 == 2 && id2 == 2
bothTwo(id1, id2) == id1 = 2 /\ id2 = 2

\* RawMessageContainer.isInteresting: v is what it returns; split[2][:1]
\* and split[3][:1] panic on an empty part (slice bounds out of range)
isInteresting(c) ==
  LET split == Split(c.Channel, ",") IN
  IF Len(split) # 5 THEN [panic |-> FALSE, v |-> FALSE]
  ELSE IF Len(split[3]) < 1 THEN [panic |-> TRUE, v |-> FALSE]
  ELSE IF Atoi(SubSeq(split[3], 1, 1)).err # nil
       THEN [panic |-> FALSE, v |-> FALSE]
  ELSE IF Len(split[4]) < 1 THEN [panic |-> TRUE, v |-> FALSE]
  ELSE IF Atoi(SubSeq(split[4], 1, 1)).err # nil
       THEN [panic |-> FALSE, v |-> FALSE]
  ELSE [panic |-> FALSE,
        v |-> bothTwo(Atoi(SubSeq(split[3], 1, 1)).n,
                      Atoi(SubSeq(split[4], 1, 1)).n)]

\* json.Unmarshal(b, &r) into a RawMessageContainer
Unmarshal(b) ==
  IF b.json THEN [r |-> [Channel |-> b.C, Messages |-> b.M], err |-> nil]
  ELSE [r |-> [Channel |-> <<>>, Messages |-> <<>>],
        err |-> New("invalid character")]

parseMessage(b) ==
  IF b.len < MinLength
  THEN [r |-> <<>>, err |-> New("message too short")]
  ELSE IF Unmarshal(b).err # nil
  THEN [r |-> <<>>, err |-> Wrap(Unmarshal(b).err, "unable to parse message")]
  ELSE [r |-> Unmarshal(b).r, err |-> nil]

isInterestingChannel(b) ==
  IF b.len < MinLength THEN [panic |-> FALSE, v |-> FALSE]
  ELSE IF Unmarshal(b).err # nil THEN [panic |-> FALSE, v |-> FALSE]
  ELSE isInteresting(Unmarshal(b).r)

\* A caller calls isInteresting on the channel identifier of the call
\* before with one more character.
IsInterestingCall ==
  /\ Len(chan.Channel) < MaxChannelLen
  /\ \E x \in ChannelChars :
       LET c == [Channel |-> Append(chan.Channel, x), Messages |-> <<>>] IN
       chan' = [Channel |-> c.Channel, calls |-> 1, out |-> isInteresting(c)]
  /\ UNCHANGED <<notCodec, dec>>

\* The calls of isInteresting on the channel identifiers of up to
\* MaxChannelLen characters
CodecSpec == Init /\ [][IsInterestingCall]_vars

\* ---------------------------------------------------- the message decoders
\* What json.Unmarshal reports when the JSON value is of another kind than
\* the Go value
UnmarshalTypeError == New("json: cannot unmarshal")

\* json.Unmarshal(bb, &s) for a string s: null leaves s as it is
parseString(m) ==
  IF m.kind = "string" THEN [v |-> m.s, err |-> nil]
  ELSE IF m.kind = "null" THEN [v |-> "", err |-> nil]
  ELSE [v |-> "", err |-> Wrap(UnmarshalTypeError,
                              "unable to unmarshal as string")]

parseBool(m) ==
  IF m.kind = "bool" THEN [v |-> m.b, err |-> nil]
  ELSE IF m.kind = "null" THEN [v |-> FALSE, err |-> nil]
  ELSE [v |-> FALSE, err |-> Wrap(UnmarshalTypeError,
                                 "unable to unmarshal as bool")]

UnmarshalDeviceStatusZero(m) == [v |-> 0, err |-> nil]

\* json.Unmarshal(bb3, &s) for a DeviceStatus s
UnmarshalDeviceStatus(m) ==
  IF m.kind = "object" THEN [v |-> m.status, err |-> nil]
  ELSE IF m.kind = "null" THEN [v |-> 0, err |-> nil]
  ELSE [v |-> 0, err |-> UnmarshalTypeError]

\* json.Unmarshal(bb, &m) for a MachineEntry m
UnmarshalMachineEntry(m) ==
  IF m.kind = "object"
  THEN [v |-> [SID |-> m.sid, Devices |-> m.devices], err |-> nil]
  ELSE IF m.kind = "null"
  THEN [v |-> [SID |-> "", Devices |-> <<>>], err |-> nil]
  ELSE [v |-> [SID |-> "", Devices |-> <<>>], err |-> UnmarshalTypeError]

checkArgCountOnly(msg, method, argCount) ==
  IF Len(msg.Arguments) # argCount
  THEN New("expected " \o ToString(argCount) \o " arguments, got "
             \o ToString(Len(msg.Arguments)))
  ELSE nil

checkMethodAndArgCount(msg, method, argCount) ==
  IF msg.Method # method THEN New("not a " \o method \o " message")
  ELSE IF Len(msg.Arguments) # argCount
  THEN New("expected " \o ToString(argCount) \o " arguments, got "
             \o ToString(Len(msg.Arguments)))
  ELSE nil

\* What a decoder returns: the record (nil: <<>>) and the error; decoded is
\* the number of arguments it has decoded.
Decoded(rec, err, decoded) == [rec |-> rec, err |-> err, decoded |-> decoded]

ParseClientConnectedMessage(message) ==
  LET err == checkMethodAndArgCount(message, "ClientConnected", 1)
      clientID == parseString(message.Arguments[1]) IN
  IF err # nil THEN Decoded(<<>>, Wrap(err, "invalid message"), 0)
  ELSE IF clientID.err # nil
  THEN Decoded(<<>>, Wrap(clientID.err, "unable to decode"), 1)
  ELSE Decoded([ClientID |-> clientID.v], nil, 1)

ParseAppClosedMessage(message) ==
  LET err == checkMethodAndArgCount(message, "AppClosed", 2)
      machineSID == parseString(message.Arguments[1])
      clientID == parseString(message.Arguments[2]) IN
  IF err # nil THEN Decoded(<<>>, Wrap(err, "invalid message"), 0)
  ELSE IF machineSID.err # nil
  THEN Decoded(<<>>, Wrap(machineSID.err, "unable to decode"), 1)
  ELSE IF clientID.err # nil
  THEN Decoded(<<>>, Wrap(clientID.err, "unable to decode"), 2)
  ELSE Decoded([MachineSID |-> machineSID.v, ClientID |-> clientID.v], nil, 2)

ParseStateChangedMessage(message) ==
  LET err == checkMethodAndArgCount(message, "StateChanged", 3)
      machineSID == parseString(message.Arguments[1])
      deviceID == parseString(message.Arguments[2])
      enabled == parseBool(message.Arguments[3]) IN
  IF err # nil THEN Decoded(<<>>, Wrap(err, "invalid message"), 0)
  ELSE IF machineSID.err # nil
  THEN Decoded(<<>>, Wrap(machineSID.err, "unable to decode"), 1)
  ELSE IF deviceID.err # nil
  THEN Decoded(<<>>, Wrap(deviceID.err, "unable to decode"), 2)
  ELSE IF enabled.err # nil
  THEN Decoded(<<>>, Wrap(enabled.err, "unable to decode"), 3)
  ELSE Decoded([MachineSID |-> machineSID.v, DeviceID |-> deviceID.v,
                Enabled |-> enabled.v], nil, 3)

ParseStatusChangedMessage(message) ==
  LET err == checkMethodAndArgCount(message, "StatusChanged", 3)
      machineSID == parseString(message.Arguments[1])
      deviceID == parseString(message.Arguments[2])
      s == UnmarshalDeviceStatus(message.Arguments[3]) IN
  IF err # nil THEN Decoded(<<>>, Wrap(err, "invalid message"), 0)
  ELSE IF machineSID.err # nil
  THEN Decoded(<<>>, Wrap(machineSID.err, "unable to decode"), 1)
  ELSE IF deviceID.err # nil
  THEN Decoded(<<>>, Wrap(deviceID.err, "unable to decode"), 2)
  ELSE IF s.err # nil
  THEN Decoded(<<>>, Wrap(s.err, "unable to decode"), 3)
  ELSE Decoded([MachineSID |-> machineSID.v, DeviceID |-> deviceID.v,
                Status |-> s.v], nil, 3)

\* The first two arguments are not decoded; the result is []MachineEntry{m}
ParseSystemInfoMessage(message) ==
  LET m == UnmarshalMachineEntry(message.Arguments[3]) IN
  IF message.Method # "SetSystemInfo"
  THEN Decoded(<<>>, New("not a SystemInfo message"), 0)
  ELSE IF Len(message.Arguments) # 3
  THEN Decoded(<<>>, New("expected 3 arguments"), 0)
  ELSE IF m.err # nil THEN Decoded(<<>>, Wrap(m.err, "unable to decode"), 1)
  ELSE Decoded(<<m.v>>, nil, 1)

\* A caller calls each decoder on the invocation msg.
Decode(msg) ==
  /\ dec' = [msg |-> msg, calls |-> 1,
             out |-> [ClientConnected |-> ParseClientConnectedMessage(msg),
                      AppClosed |-> ParseAppClosedMessage(msg),
                      StateChanged |-> ParseStateChangedMessage(msg),
                      StatusChanged |-> ParseStatusChangedMessage(msg),
                      SystemInfo |-> ParseSystemInfoMessage(msg)]]
  /\ UNCHANGED <<notCodec, chan>>

\* The invocation of the call before with another method name
DecodeMethod ==
  \E m \in Methods : Decode([dec.msg EXCEPT !.Method = m])

\* The invocation of the call before with one more argument
DecodeArgument ==
  /\ Len(dec.msg.Arguments) < MaxArgs
  /\ \E a \in Arguments : Decode([dec.msg EXCEPT !.Arguments = Append(@, a)])

\* The calls of the five decoders on the invocations with up to MaxArgs
\* arguments
DecoderSpec == Init /\ [][DecodeMethod \/ DecodeArgument]_vars

\* ------------------------------------------- ReadNextInterestingMessages
\* A frame arrives on the transport.
RxArrive ==
  /\ Len(rx.frames) < MaxFrames
  /\ \E f \in Frames : rx' = [rx EXCEPT !.frames = Append(@, f)]
  /\ UNCHANGED notRx

\* ReadNextInterestingMessages is called.
RxCall ==
  /\ rx.pc = "idle"
  /\ rx' = [rx EXCEPT !.pc = "Read", !.from = rx.read, !.out = NoResult]
  /\ UNCHANGED notRx

\* The errors Read returns: the session is closed, a goroutine's failure,
\* a failure of ReadMessage
ReadErrs ==
  { New("ws closed"),
    Wrap(New("unable to ping signalr"), "connection broken"),
    Wrap(New("unable to ping WSS"), "connection broken"),
    New("read failed") }

\* c.Read() returns an error: the call returns it wrapped.
RxReadError ==
  /\ rx.pc = "Read"
  /\ \E err \in ReadErrs :
       rx' = [rx EXCEPT !.pc = "idle",
                        !.out = [msg |-> <<>>, err |-> Wrap(err, "read failed")]]
  /\ UNCHANGED notRx

\* c.Read() returns no error and no frame (it received from the closed
\* error channel): mType is 0, the loop goes on.
RxReadNothing ==
  /\ rx.pc = "Read"
  /\ rx' = rx
  /\ UNCHANGED notRx

isTextAny(f) == TRUE

\* mType == websocket.TextMessage
isText(f) == f.mType = TextMessage

\* c.Read() returns the next frame of the transport: a frame that is not
\* text or not interesting is dropped and the loop goes on, an interesting
\* one is parsed and returned.
RxReadFrame ==
  /\ rx.pc = "Read"
  /\ rx.read < Len(rx.frames)
  /\ LET f == rx.frames[rx.read + 1]
         r == [rx EXCEPT !.read = @ + 1] IN
     rx' = IF ~isText(f) THEN r
           ELSE IF isInterestingChannel(f.b).panic
           THEN [r EXCEPT !.pc = "panic"]
           ELSE IF ~isInterestingChannel(f.b).v THEN r
           ELSE IF parseMessage(f.b).err # nil
           THEN [r EXCEPT !.pc = "idle",
                   !.out = [msg |-> <<>>,
                            err |-> Wrap(parseMessage(f.b).err,
                                         "unable to parse message")]]
           ELSE [r EXCEPT !.pc = "idle",
                   !.out = [msg |-> parseMessage(f.b).r, err |-> nil],
                   !.delivered = Append(@, parseMessage(f.b).r)]
  /\ UNCHANGED notRx

RxNext ==
  \/ RxArrive \/ RxCall \/ RxReadError \/ RxReadNothing \/ RxReadFrame

\* The frames arriving on one session's transport and the calls of
\* ReadNextInterestingMessages by one goroutine
RxSpec == Init /\ [][RxNext]_vars

\* ------------------------------------------------- the example program
\* for i := 0; i < 10; i++
Iterations == 10

\* A SetSystemInfo invocation: the client id, the machine SID and the
\* machine m1 with the devices d1 (status 2) and d2 (status 0)
SystemInfoMessage ==
  [Method |-> "SetSystemInfo",
   Arguments |-> <<JString("c1"), JString("m1"),
                   JMachine("m1", <<[Device("d1") EXCEPT !.Status = 2],
                                    Device("d2")>>)>>]

\* A StatusChanged invocation
StatusChangedMessage(sid, id, status) ==
  [Method |-> "StatusChanged",
   Arguments |-> <<JString(sid), JString(id), JStatus(status)>>]

\* A ClientConnected invocation
ClientConnectedMessage ==
  [Method |-> "ClientConnected", Arguments |-> <<JString("c1")>>]

\* The channel identifiers "1,1,2,2,1" (relevant) and "1,1,2,3,1" (not)
RelevantChannel == <<"1", ",", "1", ",", "2", ",", "2", ",", "1">>

OtherChannel == <<"1", ",", "1", ",", "2", ",", "3", ",", "1">>

\* The text frame {"C": c, "M": messages}
EnvelopeFrame(c, messages) ==
  [mType |-> TextMessage, b |-> [Envelope(c) EXCEPT !.M = messages]]

\* The frames the host sends the example program
MainFrames ==
  { EnvelopeFrame(RelevantChannel, <<SystemInfoMessage>>),
    EnvelopeFrame(RelevantChannel, <<StatusChangedMessage("m1", "d2", 8)>>),
    EnvelopeFrame(RelevantChannel, <<StatusChangedMessage("m1", "d1", 8)>>),
    EnvelopeFrame(RelevantChannel, <<StatusChangedMessage("m2", "d2", 8)>>),
    EnvelopeFrame(OtherChannel, <<StatusChangedMessage("m1", "d1", 8)>>),
    EnvelopeFrame(RelevantChannel,
                  <<ClientConnectedMessage, SystemInfoMessage,
                    StatusChangedMessage("m1", "d2", 8)>>) }

\* client.ConnectWebsocket() has returned a session to main.
Connected ==
  api.op = "none" /\ api.last.op = "ConnectWebsocket" /\ api.last.err = nil

\* ws, err := client.ConnectWebsocket()
MainConnect == api.last.op = "none" /\ ConnectWebsocket

\* A frame arrives on the transport of main's session.
MainArrive ==
  /\ api.ws # 0
  /\ Len(rx.frames) < MaxFrames
  /\ \E f \in MainFrames : rx' = [rx EXCEPT !.frames = Append(@, f)]
  /\ UNCHANGED <<notRx>>

\* messages, err := ws.ReadNextInterestingMessages()
MainCall ==
  /\ Connected /\ main.pc = "loop" /\ main.i < Iterations
  /\ rx.out = NoResult
  /\ RxCall

\* The steps of the call
MainRead ==
  /\ main.pc = "loop"
  /\ RxReadError \/ RxReadFrame

\* main after the invocations before msgs: the next one, or the next
\* iteration of the loop
Ranging(msgs) ==
  IF msgs = <<>>
  THEN [main EXCEPT !.pc = "loop", !.msgs = <<>>, !.i = @ + 1]
  ELSE [main EXCEPT !.pc = "dispatch", !.msgs = msgs]

\* panic(err)
Panicked(err) == [main EXCEPT !.pc = "panic", !.err = err]

\* The call has returned: panic(err), or for _, msg := range
\* messages.Messages
MainTake ==
  /\ main.pc = "loop" /\ rx.pc = "idle" /\ rx.out # NoResult
  /\ main' = IF rx.out.err # nil THEN Panicked(rx.out.err)
             ELSE Ranging(rx.out.msg.Messages)
  /\ rx' = [rx EXCEPT !.out = NoResult]
  /\ UNCHANGED <<wsVars, liveVars, codecVars>>

\* The array a decoded machine's Devices is allocated at: one no machine
\* of the LiveState refers to
NewArray ==
  IF \E k \in DOMAIN ls.machines : ls.machines[k].Devices = 1 THEN 2 ELSE 1

\* LiveState.UpdateStatus(status): Update with the fields of the decoded
\* StatusChangedMessage
UpdateStatus(st, status, now) == Update(st, status, now)

\* The body of the range loop for the invocation msg: by its method, parse
\* it and feed it to the LiveState; panic(err) on any error.
MainDispatch ==
  /\ main.pc = "dispatch"
  /\ LET msg == Head(main.msgs)
         next == Ranging(Tail(main.msgs)) IN
     CASE msg.Method = "SetSystemInfo" ->
            LET sysInf == ParseSystemInfoMessage(msg)
                a == NewArray
                hp == [heap EXCEPT ![a] = sysInf.rec[1].Devices]
                entries == <<[SID |-> sysInf.rec[1].SID, Devices |-> a]>>
                st == SetSystemInfo([Actual EXCEPT !.heap = hp], entries) IN
            IF sysInf.err # nil
            THEN main' = Panicked(sysInf.err) /\ UNCHANGED <<ls, heap>>
            ELSE /\ main' = next
                 /\ heap' = st.heap
                 /\ ls' = [ls EXCEPT !.machines = st.machines,
                             !.devicesLastUpdated = st.devicesLastUpdated]
       [] msg.Method = "StatusChanged" ->
            LET status == ParseStatusChangedMessage(msg) IN
            IF status.err # nil
            THEN main' = Panicked(status.err) /\ UNCHANGED <<ls, heap>>
            ELSE \E now \in Times :
                   LET r == UpdateStatus(Actual, status.rec, now) IN
                   IF r.err # nil
                   THEN main' = Panicked(r.err) /\ UNCHANGED <<ls, heap>>
                   ELSE /\ main' = next
                        /\ heap' = r.st.heap
                        /\ ls' = [ls EXCEPT !.devicesLastUpdated =
                                               r.st.devicesLastUpdated]
       [] OTHER -> main' = next /\ UNCHANGED <<ls, heap>>
  /\ UNCHANGED <<wsVars, callers, serial, ret, rx, codecVars>>

MainNext ==
  \/ MainConnect \/ Auth2 \/ Negotiate \/ Connect \/ Start
  \/ MainArrive \/ MainCall \/ MainRead \/ MainTake \/ MainDispatch

\* The example program: it connects, and reads the envelopes of its session
\* and feeds their invocations to its LiveState
MainSpec == Init /\ [][MainNext]_vars

\* ----------------------------------------------------------------- claims
\* C1: on every session at most one of Read, the keep-alive goroutine and
\* close is inside a transport operation (ReadMessage, WriteMessage, Close),
\* and whoever is inside one holds the session's wsLock.
C1_TransportMutex ==
  \A s \in Sessions :
    /\ Cardinality(sess[s].inOp) <= 1
    /\ \A g \in sess[s].inOp : sess[s].wsLock = g

\* Read is inside ReadMessage while the keep-alive goroutine waits for the
\* lock and close waits for the goroutines.
C1_Witness ==
  \E s \in Sessions :
    /\ sess[s].inOp = {"Read"} /\ sess[s].ka = "lock"
    /\ api.pc = "wait" /\ api.ws = s

\* C3: the transport is closed (ws.Close is begun) and the error channel is
\* closed only when both goroutines have returned; no keep-alive frame is
\* being written to a closed transport and no goroutine has sent on the
\* closed error channel.
C3_CloseAfterGoroutines ==
  /\ panic = "none"
  /\ \A s \in Sessions :
       /\ (sess[s].ws = "closed" \/ sess[s].err = "closed"
             \/ "close" \in sess[s].inOp)
            => (sess[s].ping = "done" /\ sess[s].ka = "done" /\ sess[s].wg = 0)
       /\ sess[s].ka = "writing" => sess[s].ws = "open"

\* A session that wrote keep-alives and pinged has been closed.
C3_Witness ==
  \E s \in Sessions :
    /\ sess[s].ws = "closed" /\ sess[s].err = "closed"
    /\ Len(sess[s].kaLog) > 0 /\ Len(sess[s].nonceLog) > 2

\* C4: Read never begins a transport read (ReadMessage) on a session whose
\* closed signal has been broadcast.
C4_NoReadAfterClosed ==
  [][(rd.pc = "lock" /\ rd'.pc = "reading") => ~sess[rd.s].closed]_vars

\* C5: once the closed signal of a session has been broadcast, no ping is
\* begun (the nonce log does not grow) and no keep-alive frame is written
\* (the keep-alive log does not grow).
C5_NoSendAfterClosed ==
  [][\A s \in Sessions :
       sess[s].closed => /\ sess'[s].nonceLog = sess[s].nonceLog
                         /\ sess'[s].kaLog = sess[s].kaLog]_vars

\* C2: every call of close on an open session returns (with both
\* goroutines stopped, which close waits for before it returns).
InClose == api.pc \in {"close", "wait", "lock", "closing"}

C2_CloseReturns == InClose ~> ~InClose

\* The goroutines of session s blocked sending a failure on the error channel.
Offering(s) == sess[s].ping = "send" \/ sess[s].ka = "send"

Broken(err) == err # nil /\ err[1] = "connection broken"

\* C6: a Read called on a session that is not closed while a goroutine is
\* offering a failure returns "connection broken" without reading the
\* transport; and every Read that returns "connection broken" takes the
\* failure from exactly one goroutine, which stops offering it, so that no
\* failure is returned twice.
C6_ReadReturnsFailure ==
  [][\A s \in Sessions :
       ReadSelect(s) =>
         /\ (~sess[s].closed /\ Offering(s)) =>
              (rd'.pc = "idle" /\ rd'.s = s /\ Broken(rd'.err) /\ ~rd'.read)
         /\ (rd'.pc = "idle" /\ Broken(rd'.err)) =>
              \/ /\ sess[s].ping = "send" /\ sess'[s].ping = "select"
                 /\ sess'[s].ka = sess[s].ka
                 /\ rd'.err = <<"connection broken", "unable to ping signalr">>
              \/ /\ sess[s].ka = "send" /\ sess'[s].ka = "select"
                 /\ sess'[s].ping = sess[s].ping
                 /\ rd'.err = <<"connection broken", "unable to ping WSS">>
    ]_vars

\* Read has returned a failure of a session that is not closed.
C6_Witness ==
  /\ rd.pc = "idle" /\ rd.s # 0 /\ Broken(rd.err) /\ ~rd.read
  /\ ~sess[rd.s].closed

\* C7: a failure a goroutine is offering is received by a Read, which
\* returns it, unless the session is closed.
C7_FailureDelivered ==
  \A s \in 1..FairSessions :
    /\ (sess[s].ping = "send") ~>
         \/ sess[s].closed
         \/ /\ sess[s].ping # "send" /\ rd.s = s
            /\ rd.err = <<"connection broken", "unable to ping signalr">>
    /\ (sess[s].ka = "send") ~>
         \/ sess[s].closed
         \/ /\ sess[s].ka # "send" /\ rd.s = s
            /\ rd.err = <<"connection broken", "unable to ping WSS">>

\* Read has returned the keep-alive goroutine's failure on a session that
\* is not closed, and the ping goroutine is offering the next one.
C7_Witness ==
  \E s \in Sessions :
    /\ ~sess[s].closed /\ rd.s = s /\ rd.pc = "idle"
    /\ rd.err = <<"connection broken", "unable to ping WSS">>
    /\ sess[s].ping = "send"

\* A CloseWebsocket call returns, and the call that returned before it was
\* a CloseWebsocket that reported no error.
SecondClose ==
  /\ api.last.op = "CloseWebsocket" /\ api.last.err = nil
  /\ api.op \in {"none", "CloseWebsocket"}
  /\ api' # api /\ api'.op = "none" /\ api'.last.op = "CloseWebsocket"

\* C8 as claimed: the second of two CloseWebsocket calls in sequence reports
\* no error and does not panic.
C8_SecondCloseNoError ==
  [][SecondClose => (api'.last.err = nil /\ panic' = "none")]_vars

\* C8, amended: the second of two CloseWebsocket calls in sequence does not
\* panic and changes no session, and reports "websocket not connected".
C8_SecondCloseNotConnected ==
  [][SecondClose => /\ api'.last.err = <<"websocket not connected">>
                    /\ api'.ws = 0 /\ api.ws = 0
                    /\ sess' = sess /\ panic' = "none"]_vars

\* A session was created and closed, none is held, and the last call was a
\* CloseWebsocket that reported "websocket not connected".
C8_Witness ==
  /\ api.n >= 1 /\ api.ws = 0 /\ api.op = "none"
  /\ sess[api.n].err = "closed"
  /\ api.last.op = "CloseWebsocket" /\ api.last.ws = 0
  /\ api.last.err = <<"websocket not connected">>

\* The message by which newWebsocketClient names a failing step.
StepMessage(step) ==
  CASE step = "auth2" -> "unable to auth2"
    [] step = "negotiate" -> "unable to negotiate"
    [] step = "connect" -> "unable to connect"
    [] step = "start" -> "unable to start"

HandshakeSteps == <<"auth2", "negotiate", "connect", "start">>

\* C9: the steps a handshake performs are auth2, negotiate, connect, start
\* in this order; a session exists only after all four, with the reply
\* "started"; a handshake that failed performed no step after the failing
\* one, returned no session, started no goroutine, and its error names the
\* failing step.
C9_HandshakeOrder ==
  /\ Len(api.steps) <= 4
  /\ \A i \in 1..Len(api.steps) : api.steps[i] = HandshakeSteps[i]
  /\ \A s \in Sessions : s > api.n => sess[s] = NoSession
  /\ api.ws # 0 => (api.steps = HandshakeSteps /\ api.reply = "started")
  /\ (api.steps = HandshakeSteps /\ api.reply # "started" /\ api.op = "none")
       => api.last.err # nil
  /\ (api.op = "none" /\ api.last.err # nil
        /\ api.last.op \in {"ConnectWebsocket", "ReconnectWebsocket"})
       => /\ api.last.ws = 0 /\ api.ws = 0
          /\ api.steps # <<>>
          /\ Len(api.last.err) >= 2
          /\ api.last.err[1] = "unable to connect websocket"
          /\ api.last.err[2] = StepMessage(api.steps[Len(api.steps)])
          /\ \A s \in Sessions : /\ sess[s].ping \in {"none", "done"}
                                 /\ sess[s].ka \in {"none", "done"}

\* A handshake failed at start because the host did not reply "started".
C9_Witness ==
  /\ api.op = "none" /\ api.last.op = "ConnectWebsocket"
  /\ api.steps = HandshakeSteps /\ api.reply = "pong"
  /\ api.last.err = <<"unable to connect websocket", "unable to start",
                      "did not receive a started response">>

\* C10: the nonces of one session's negotiate, start and pings are n0,
\* n0+1, n0+2, ... with n0 the creation time in milliseconds, failed pings
\* included; the same holds of a handshake in progress.
Consecutive(log) ==
  \A i \in 1..Len(log) : log[i] = log[1] + i - 1

C10_NonceSequence ==
  /\ Consecutive(api.nonceLog)
  /\ api.nonceLog # <<>> => \E t \in NowNanos : api.nonceLog[1] * 1000000 <= t
                                             /\ t < (api.nonceLog[1] + 1) * 1000000
  /\ \A s \in Sessions :
       /\ Consecutive(sess[s].nonceLog)
       /\ sess[s].nonceLog # <<>> =>
            /\ \E t \in NowNanos : /\ sess[s].nonceLog[1] * 1000000 <= t
                                   /\ t < (sess[s].nonceLog[1] + 1) * 1000000
            /\ sess[s].nonce = sess[s].nonceLog[Len(sess[s].nonceLog)]
            /\ Len(sess[s].nonceLog) >= 2

\* A first ping failed and was received by Read, and a second ping was made
\* (and failed as well).
C10_Witness ==
  \E s \in Sessions :
    /\ Len(sess[s].nonceLog) = 4 /\ sess[s].ping = "send"
    /\ rd.s = s /\ rd.pc = "idle"
    /\ rd.err = <<"connection broken", "unable to ping signalr">>

\* C11: the keep-alive frames of a session carry the ids 1, 2, 3, ... in
\* the order written, one id per write attempt whether it succeeded or
\* failed (the id after an attempt is taken once the attempt is over and its
\* failure, if any, has been received); a ping leaves the keep-alive id and
\* log alone and a keep-alive leaves the ping nonce and log alone.
C11_KeepAliveIds ==
  /\ [](\A s \in Sessions :
          sess[s].ws # "nil" =>
            /\ \A i \in 1..Len(sess[s].kaLog) : sess[s].kaLog[i] = i
            /\ sess[s].currentNonce =
                 IF sess[s].ka \in {"writing", "send"}
                 THEN Len(sess[s].kaLog) ELSE Len(sess[s].kaLog) + 1)
  /\ [][\A s \in Sessions :
          sess[s].ws # "nil" =>
            /\ (sess'[s].nonce # sess[s].nonce
                  \/ sess'[s].nonceLog # sess[s].nonceLog)
                 => /\ sess'[s].currentNonce = sess[s].currentNonce
                    /\ sess'[s].kaLog = sess[s].kaLog
            /\ (sess'[s].currentNonce # sess[s].currentNonce
                  \/ sess'[s].kaLog # sess[s].kaLog)
                 => /\ sess'[s].nonce = sess[s].nonce
                    /\ sess'[s].nonceLog = sess[s].nonceLog]_vars

\* A first keep-alive write failed, Read received the failure, and the
\* second write is made with id 2.
C11_Witness ==
  \E s \in Sessions :
    /\ sess[s].kaLog = <<1, 2>> /\ sess[s].ka = "writing"
    /\ rd.s = s /\ rd.err = <<"connection broken", "unable to ping WSS">>

\* A ConnectWebsocket call returns.
ConnectReturns ==
  /\ api.op \in {"none", "ConnectWebsocket"}
  /\ api' # api /\ api'.op = "none" /\ api'.last.op = "ConnectWebsocket"

\* C12: a ConnectWebsocket that finds a session held returns that session
\* and performs no handshake; a handshake of ConnectWebsocket runs only
\* while no session is held, a successful call returns the held session,
\* and a successful ConnectWebsocket that follows a successful
\* ConnectWebsocket returns the same session, no session being created.
C12_ConnectOnce ==
  [][ConnectReturns =>
       /\ (api.op = "none" /\ api.ws # 0) =>
            /\ api'.last.err = nil /\ api'.last.ws = api.ws /\ ~api'.last.hs
            /\ api'.ws = api.ws /\ api'.n = api.n /\ api'.steps = api.steps
            /\ sess' = sess
       /\ api.op = "ConnectWebsocket" => api.ws = 0
       /\ api'.last.err = nil => (api'.ws # 0 /\ api'.last.ws = api'.ws)
       /\ (api.last.op = "ConnectWebsocket" /\ api.last.err = nil
             /\ api'.last.err = nil)
            => (api'.last.ws = api.last.ws /\ api'.n = api.n)
    ]_vars

\* A ConnectWebsocket returned the held session without a handshake.
C12_Witness ==
  /\ api.op = "none" /\ api.last.op = "ConnectWebsocket"
  /\ api.last.err = nil /\ ~api.last.hs
  /\ api.ws # 0 /\ api.last.ws = api.ws

\* A ReconnectWebsocket call returns.
ReconnectReturns ==
  api.op = "ReconnectWebsocket" /\ api'.op = "none"

\* C13: while ReconnectWebsocket is in its handshake no session is held and
\* every session created before is closed; a ReconnectWebsocket on a client
\* holding no session goes to the handshake; a successful call leaves the
\* client holding a new, open session distinct from every earlier one, a
\* failed one returns the handshake's error and leaves it holding none.
C13_ReconnectFresh ==
  /\ []((api.op = "ReconnectWebsocket" /\ api.pc \in HandshakePcs) =>
          /\ api.ws = 0
          /\ \A s \in 1..api.n :
               sess[s].ws = "closed" /\ sess[s].err = "closed")
  /\ [][/\ (api.op = "none" /\ api'.op = "ReconnectWebsocket" /\ api.ws = 0)
             => api'.pc = "auth2"
        /\ ReconnectReturns =>
             /\ api.pc \in HandshakePcs /\ api'.last.hs
             /\ IF api'.last.err = nil
                THEN /\ api'.ws = api.n + 1 /\ api'.last.ws = api'.ws
                     /\ sess[api'.ws] = NoSession
                     /\ sess'[api'.ws].ws = "open" /\ ~sess'[api'.ws].closed
                ELSE /\ api'.ws = 0 /\ api'.last.ws = 0
                     /\ api'.last.err[1] = "unable to connect websocket"
       ]_vars

\* ReconnectWebsocket closed session 1 and returned the new session 2.
C13_Witness ==
  /\ api.op = "none" /\ api.last.op = "ReconnectWebsocket"
  /\ api.last.err = nil /\ api.ws = 2 /\ api.last.ws = 2
  /\ sess[1].ws = "closed" /\ sess[2].ws = "open"

\* The devices of machine k: the array its Devices refers to
DevicesOf(machines, hp, k) == hp[machines[k].Devices]

HasDevice(machines, hp, k, id) ==
  \E j \in DOMAIN DevicesOf(machines, hp, k) :
    DevicesOf(machines, hp, k)[j].ID = id

\* The steps of caller p: its Update takes the mutex and looks for the
\* device; its Update writes; its AddMachine writes; its SetSystemInfo
\* empties the map.
UpdateLooks(p) ==
  callers[p].pc = "lock" /\ callers'[p].pc \in {"write", "idle"}

UpdateWrites(p) == callers[p].pc = "write" /\ callers'[p].pc = "idle"

AddMachineWrites(p) == callers[p].pc = "put" /\ callers'[p].pc = "idle"

SetSystemInfoClears(p) == callers[p].pc = "clear" /\ callers'[p].pc = "idle"

\* No call is inside the LiveState.
Quiet == \A p \in Callers : callers[p].pc \in {"idle", "lock"}

\* C14: after any sequence of SetSystemInfo, AddMachine and Update calls,
\* every device id with an entry in the timestamp map is the id of a device
\* of exactly one machine of the snapshot.
C14_TimestampedDevicesExist ==
  Quiet =>
    \A id \in DOMAIN ls.devicesLastUpdated :
      Cardinality({k \in DOMAIN ls.machines :
                     HasDevice(ls.machines, heap, k, id)}) = 1

DistinctSIDs(machines) ==
  \A k, l \in DOMAIN machines : k # l => machines[k].SID # machines[l].SID

DistinctDeviceIDs(machines, hp) ==
  \A k \in DOMAIN machines :
    \A a, b \in DOMAIN DevicesOf(machines, hp, k) :
      a # b => DevicesOf(machines, hp, k)[a].ID # DevicesOf(machines, hp, k)[b].ID

\* No two machines' Devices slices refer to the same array.
NoSharedArrays(machines) ==
  \A k, l \in DOMAIN machines :
    k # l => machines[k].Devices # machines[l].Devices

\* The writing step of caller p's Update did what the claim says of an
\* Update for the device j of machine i.
UpdateEffect(p) ==
  LET c == callers[p].arg
      i == FirstMachine(ls.machines, c.MachineSID)
      j == FirstDevice(DevicesOf(ls.machines, heap, i), c.DeviceID)
      old == ls.devicesLastUpdated
      new == ls'.devicesLastUpdated IN
  /\ ret'.op = "Update" /\ ret'.err = nil
  /\ Len(ls'.machines) = Len(ls.machines)
  /\ \A k \in DOMAIN ls.machines :
       /\ ls'.machines[k].SID = ls.machines[k].SID
       /\ Len(DevicesOf(ls'.machines, heap', k))
            = Len(DevicesOf(ls.machines, heap, k))
       /\ \A l \in DOMAIN DevicesOf(ls.machines, heap, k) :
            DevicesOf(ls'.machines, heap', k)[l] =
              IF k = i /\ l = j
              THEN [DevicesOf(ls.machines, heap, k)[l]
                      EXCEPT !.Status = c.Status]
              ELSE DevicesOf(ls.machines, heap, k)[l]
  /\ DOMAIN new = DOMAIN old \cup {c.DeviceID}
  /\ new[c.DeviceID] = callers[p].now
  /\ \A id \in DOMAIN old \ {c.DeviceID} : new[id] = old[id]

\* An Update that takes the mutex succeeds (goes on to write) when the
\* device is present.
UpdateFinds(p) ==
  \A sid \in SIDs, id \in DeviceIDs :
    (/\ \E k \in DOMAIN ls.machines :
          ls.machines[k].SID = sid /\ HasDevice(ls.machines, heap, k, id)
     /\ [MachineSID |-> sid, DeviceID |-> id] =
          IF callers'[p].pc = "write" THEN Target(callers'[p].arg)
          ELSE ret'.arg)
    => callers'[p].pc = "write"

\* C15 as claimed: for a snapshot with pairwise distinct SIDs and distinct
\* device ids within each machine, Update for a present (SID, device id)
\* succeeds, replaces that device's status, records the timestamp and
\* leaves every other device, every other machine, the device's other
\* fields, the machine order and the other timestamps unchanged.
C15_UpdateFrame ==
  [][\A p \in Callers :
       (DistinctSIDs(ls.machines) /\ DistinctDeviceIDs(ls.machines, heap)) =>
         /\ UpdateLooks(p) => UpdateFinds(p)
         /\ UpdateWrites(p) => UpdateEffect(p)]_vars

\* C15, amended: the same for a snapshot in which, moreover, no two
\* machines share the array of their devices.
C15_UpdateFrameUnshared ==
  [][\A p \in Callers :
       (/\ DistinctSIDs(ls.machines) /\ DistinctDeviceIDs(ls.machines, heap)
        /\ NoSharedArrays(ls.machines)) =>
         /\ UpdateLooks(p) => UpdateFinds(p)
         /\ UpdateWrites(p) => UpdateEffect(p)]_vars

\* An Update for device d1 of the first of two machines with distinct SIDs
\* and arrays of their own has returned: d1 has the status 8, its sibling
\* d2 the status 0, and d1 alone has a timestamp.
C15_Witness ==
  /\ Quiet /\ ret.op = "Update" /\ ret.err = nil
  /\ Len(ls.machines) = 2
  /\ DistinctSIDs(ls.machines) /\ NoSharedArrays(ls.machines)
  /\ ret.arg = [MachineSID |-> ls.machines[1].SID, DeviceID |-> "d1"]
  /\ DevicesOf(ls.machines, heap, 1)[1].Status = 8
  /\ DevicesOf(ls.machines, heap, 1)[2].Status = 0
  /\ DOMAIN ls.devicesLastUpdated = {"d1"}

\* C16: an Update returns "machine not found" when no machine has the SID
\* and "device not found" when a machine has it (the first such machine
\* being the one Update looks into) and that machine has no device with the
\* id; an Update returns an error in these cases only, and a failed Update
\* leaves the machine list, the devices and the timestamp map unchanged.
C16_UpdateNotFound ==
  [][\A p \in Callers :
       /\ (UpdateLooks(p) /\ callers'[p].pc = "idle") =>
            LET sid == ret'.arg.MachineSID
                id == ret'.arg.DeviceID
                i == FirstMachine(ls.machines, sid) IN
            /\ ret'.op = "Update"
            /\ IF \A k \in DOMAIN ls.machines : ls.machines[k].SID # sid
               THEN ret'.err = <<"machine not found">>
               ELSE /\ ls.machines[i].SID = sid
                    /\ ~HasDevice(ls.machines, heap, i, id)
                    /\ ret'.err = <<"device not found">>
            /\ ls'.machines = ls.machines
            /\ ls'.devicesLastUpdated = ls.devicesLastUpdated
            /\ heap' = heap
       /\ (UpdateLooks(p) /\ callers'[p].pc = "write") =>
            LET sid == callers'[p].arg.MachineSID
                i == FirstMachine(ls.machines, sid) IN
            /\ i # 0
            /\ HasDevice(ls.machines, heap, i, callers'[p].arg.DeviceID)
       /\ UpdateWrites(p) => (ret'.op = "Update" /\ ret'.err = nil)
    ]_vars

\* An Update of a snapshot with timestamps has returned "device not found".
C16_Witness ==
  /\ Quiet /\ ret.op = "Update" /\ ret.err = <<"device not found">>
  /\ ls.machines # <<>> /\ DOMAIN ls.devicesLastUpdated # {}

\* C17: between the two assignments of a SetSystemInfo its caller holds the
\* mutex and no other call is inside the LiveState, so that none observes
\* the new machine list with the old timestamps; when SetSystemInfo returns
\* the machine list is entries and the timestamp map is empty.
C17_SetSystemInfoAtomic ==
  /\ [](\A p \in Callers :
          callers[p].pc = "clear" =>
            /\ ls.l = p /\ ls.machines = callers[p].arg
            /\ \A q \in Callers \ {p} : callers[q].pc \in {"idle", "lock"})
  /\ [][\A p \in Callers :
          SetSystemInfoClears(p) =>
            /\ ls'.machines = callers[p].arg
            /\ ls'.devicesLastUpdated = EmptyMap
            /\ heap' = heap /\ Quiet']_vars

\* A SetSystemInfo has installed its machines and not yet emptied the map
\* of the old snapshot's timestamps, while another caller waits for the
\* mutex.
C17_Witness ==
  \E p, q \in Callers :
    /\ p # q /\ callers[p].pc = "clear" /\ callers[q].pc = "lock"
    /\ callers[p].arg # <<>> /\ DOMAIN ls.devicesLastUpdated # {}

\* C18: AddMachine(entry) puts entry in the place of the first machine with
\* entry's SID, the number of machines staying the same, or appends entry
\* when no machine has that SID; every other machine, the devices and the
\* timestamp map stay as they were.
C18_AddMachineFrame ==
  [][\A p \in Callers :
       AddMachineWrites(p) =>
         LET entry == callers[p].arg
             n == Len(ls.machines)
             first == {i \in 1..n :
                         /\ ls.machines[i].SID = entry.SID
                         /\ \A k \in 1..(i - 1) :
                              ls.machines[k].SID # entry.SID} IN
         /\ \A i \in first :
              /\ Len(ls'.machines) = n /\ ls'.machines[i] = entry
              /\ \A k \in 1..n : k # i => ls'.machines[k] = ls.machines[k]
         /\ first = {} =>
              /\ Len(ls'.machines) = n + 1 /\ ls'.machines[n + 1] = entry
              /\ \A k \in 1..n : ls'.machines[k] = ls.machines[k]
         /\ ls'.devicesLastUpdated = ls.devicesLastUpdated
         /\ heap' = heap
         /\ ret'.op = "AddMachine" /\ ret'.err = nil]_vars

\* The call that returned last is an AddMachine that replaced the first of
\* two machines with its SID, in a snapshot with timestamps.
C18_Witness ==
  /\ Quiet /\ ret.op = "AddMachine"
  /\ Len(ls.machines) = 2 /\ ls.machines[1].SID = ls.machines[2].SID
  /\ ls.machines[1].Devices # ls.machines[2].Devices
  /\ DOMAIN ls.devicesLastUpdated # {}

\* C19: whenever no call is inside the LiveState, its machine list, its
\* devices and its timestamp map are those that executing the calls made so
\* far one at a time, in the order in which they took the mutex, yields
\* (and the mutex is free).
C19_Serialized ==
  Quiet => (Actual = serial /\ ls.l = 0)

\* An Update has succeeded and returned while another caller waits for the
\* mutex.
C19_Witness ==
  \E p, q \in Callers :
    /\ p # q /\ callers[p].pc = "idle" /\ callers[q].pc = "lock"
    /\ ret.op = "Update" /\ ret.err = nil /\ ls.l = 0
    /\ Len(ls.machines) = 2 /\ Actual = serial

\* A frame is a text frame with a relevant channel identifier: its bytes
\* are a JSON object whose "C" has five comma-separated parts of which the
\* third and the fourth begin with the digit 2.
Relevant(f) ==
  /\ f.mType = TextMessage /\ f.b.json
  /\ LET parts == Split(f.b.C, ",") IN
     /\ Len(parts) = 5
     /\ parts[3] # <<>> /\ parts[3][1] = "2"
     /\ parts[4] # <<>> /\ parts[4][1] = "2"

\* The envelope a frame carries
EnvelopeOf(f) == [Channel |-> f.b.C, Messages |-> f.b.M]

RECURSIVE RelevantEnvelopes(_)
\* The envelopes of the relevant frames of a sequence of frames, in order
RelevantEnvelopes(fs) ==
  IF fs = <<>> THEN <<>>
  ELSE (IF Relevant(Head(fs)) THEN <<EnvelopeOf(Head(fs))>> ELSE <<>>)
         \o RelevantEnvelopes(Tail(fs))

\* C20: the envelopes ReadNextInterestingMessages has returned are those of
\* the relevant text frames among the frames read, in the order the frames
\* arrived; a call that returns an envelope returns that of the earliest
\* relevant text frame not read before the call and has read the frames up
\* to it and no further; a call that returns an error returns no envelope.
C20_DeliveredInOrder ==
  /\ [](rx.delivered = RelevantEnvelopes(SubSeq(rx.frames, 1, rx.read)))
  /\ [][(rx.pc = "Read" /\ rx'.pc = "idle") =>
          IF rx'.out.err = nil
          THEN /\ rx'.read \in (rx.from + 1)..Len(rx.frames)
               /\ Relevant(rx.frames[rx'.read])
               /\ \A k \in (rx.from + 1)..(rx'.read - 1) :
                    ~Relevant(rx.frames[k])
               /\ rx'.out.msg = EnvelopeOf(rx.frames[rx'.read])
          ELSE rx'.out.msg = <<>> /\ rx'.delivered = rx.delivered
       ]_vars

\* Two calls have returned the two relevant text frames that arrived after
\* a binary frame, in the order they arrived.
C20_Witness ==
  /\ rx.pc = "idle" /\ rx.read = 3 /\ Len(rx.delivered) = 2
  /\ rx.frames[1].mType = BinaryMessage
  /\ rx.delivered = <<EnvelopeOf(rx.frames[2]), EnvelopeOf(rx.frames[3])>>
  /\ rx.delivered[1] # rx.delivered[2]
  /\ rx.out.msg = rx.delivered[2]

\* The decimal digits
DecimalDigits == {"0", "1", "2", "3", "4", "5", "6", "7", "8", "9"}

\* The number of commas of a channel identifier
RECURSIVE Commas(_)
Commas(c) ==
  IF c = <<>> THEN 0
  ELSE (IF Head(c) = "," THEN 1 ELSE 0) + Commas(Tail(c))

\* The k-th comma-separated part of a channel identifier
Part(c, k) == Split(c, ",")[k]

\* The part begins with a decimal digit
LeadingDigit(part) == part # <<>> /\ part[1] \in DecimalDigits

\* C21: no call of isInteresting panics, and a call on an identifier of
\* five parts of which the third or the fourth does not begin with a decimal
\* digit (an empty part included) returns false.
C21_NeverFails ==
  chan.calls = 1 =>
    /\ ~chan.out.panic
    /\ (/\ Commas(chan.Channel) = 4
        /\ \/ ~LeadingDigit(Part(chan.Channel, 3))
           \/ ~LeadingDigit(Part(chan.Channel, 4)))
         => ~chan.out.v

\* The identifier has five parts, and its third and fourth part begin with
\* the digit 2.
TwoTwo(c) ==
  /\ Commas(c) = 4
  /\ Part(c, 3) # <<>> /\ Part(c, 3)[1] = "2"
  /\ Part(c, 4) # <<>> /\ Part(c, 4)[1] = "2"

\* C22: isInteresting returns true exactly on the identifiers of five parts
\* whose third and fourth part begin with the digit 2; on an identifier
\* with another number of parts, and on one of five parts whose third and
\* fourth part begin with digits that are not both 2, it returns false.
C22_TrueExactly ==
  chan.calls = 1 =>
    /\ chan.out.v <=> TwoTwo(chan.Channel)
    /\ Commas(chan.Channel) # 4 => (~chan.out.panic /\ ~chan.out.v)
    /\ (/\ Commas(chan.Channel) = 4
        /\ LeadingDigit(Part(chan.Channel, 3))
        /\ LeadingDigit(Part(chan.Channel, 4))
        /\ ~TwoTwo(chan.Channel))
         => (~chan.out.panic /\ ~chan.out.v)

\* isInteresting has returned true on an identifier whose third part has
\* two characters.
C22_Witness ==
  /\ chan.calls = 1 /\ chan.out.v /\ ~chan.out.panic
  /\ Len(Part(chan.Channel, 3)) = 2

\* The decoders: the method name and the arity each expects, and the name
\* by which its wrong-method error calls the message
Decoders ==
  { [fn |-> "ClientConnected", method |-> "ClientConnected", arity |-> 1,
     tag |-> "ClientConnected"],
    [fn |-> "AppClosed", method |-> "AppClosed", arity |-> 2,
     tag |-> "AppClosed"],
    [fn |-> "StateChanged", method |-> "StateChanged", arity |-> 3,
     tag |-> "StateChanged"],
    [fn |-> "StatusChanged", method |-> "StatusChanged", arity |-> 3,
     tag |-> "StatusChanged"],
    [fn |-> "SystemInfo", method |-> "SetSystemInfo", arity |-> 3,
     tag |-> "SystemInfo"] }

\* The innermost message of an error
Cause(err) == err[Len(err)]

\* C23: a decoder called on an invocation whose method name is not the one
\* it expects, or whose number of arguments is not its arity, returns an
\* error and no record and has decoded no argument; the error is the
\* wrong-method error when the method name is wrong (whatever the number of
\* arguments) and the wrong-arity error otherwise.
C23_MethodAndArity ==
  dec.calls = 1 =>
    \A d \in Decoders :
      LET out == dec.out[d.fn]
          n == Len(dec.msg.Arguments) IN
      (dec.msg.Method # d.method \/ n # d.arity) =>
        /\ out.err # nil /\ out.rec = <<>> /\ out.decoded = 0
        /\ IF dec.msg.Method # d.method
           THEN Cause(out.err) = "not a " \o d.tag \o " message"
           ELSE Cause(out.err) \in
                  { "expected " \o ToString(d.arity) \o " arguments",
                    "expected " \o ToString(d.arity) \o " arguments, got "
                      \o ToString(n) }

\* The StatusChanged decoder was called on a StatusChanged invocation with
\* two arguments, and the AppClosed decoder, for which the method is wrong
\* and the arity right, on the same one.
C23_Witness ==
  /\ dec.calls = 1 /\ dec.msg.Method = "StatusChanged"
  /\ dec.msg.Arguments = <<JString("m1"), JString("d2")>>
  /\ dec.out.StatusChanged =
       Decoded(<<>>, <<"invalid message", "expected 3 arguments, got 2">>, 0)
  /\ dec.out.AppClosed =
       Decoded(<<>>, <<"invalid message", "not a AppClosed message">>, 0)

\* The envelope with the SetSystemInfo invocation and the one with the
\* StatusChanged invocation for device d2 of machine m1, status 8
SystemInfoEnvelope ==
  [Channel |-> RelevantChannel, Messages |-> <<SystemInfoMessage>>]

StatusChangedEnvelope ==
  [Channel |-> RelevantChannel,
   Messages |-> <<StatusChangedMessage("m1", "d2", 8)>>]

\* C24: in a run of the example program whose handshake succeeded and to
\* which the SystemInfo envelope (machine m1 with the devices d1 and d2)
\* and then the StatusChanged envelope (d2, status 8) are delivered, no
\* invocation makes the program panic (only a failed read does), and once
\* both are worked through the LiveState holds the one machine m1, d2 with
\* status 8, d1 as the SystemInfo envelope gave it, and the timestamp map
\* has exactly one entry, for d2.
C24_EndToEnd ==
  (Connected /\ rx.delivered \in {<<>>, <<SystemInfoEnvelope>>,
                                   <<SystemInfoEnvelope, StatusChangedEnvelope>>})
    => /\ main.pc = "panic" => main.err[1] = "read failed"
       /\ (/\ rx.delivered = <<SystemInfoEnvelope, StatusChangedEnvelope>>
           /\ main.pc = "loop" /\ main.i = 2)
            => /\ Len(ls.machines) = 1 /\ ls.machines[1].SID = "m1"
               /\ heap[ls.machines[1].Devices] =
                    << [ID |-> "d1", Enabled |-> TRUE, Status |-> 2],
                       [ID |-> "d2", Enabled |-> TRUE, Status |-> 8] >>
               /\ DOMAIN ls.devicesLastUpdated = {"d2"}
               /\ ls.devicesLastUpdated["d2"] \in Times

\* The program has worked through the two envelopes, which arrived with a
\* frame of another channel between them, and d2 has its timestamp.
C24_Witness ==
  /\ Connected /\ main.pc = "loop" /\ main.i = 2
  /\ Len(rx.frames) = 3 /\ rx.read = 3
  /\ rx.frames[2].b.C = OtherChannel
  /\ rx.delivered = <<SystemInfoEnvelope, StatusChangedEnvelope>>
  /\ DOMAIN ls.devicesLastUpdated = {"d2"}

\* ------------------------------------------------------------------- C25
\* The step of session s in which a second, sequential close() returns.
SecondCloseReturns(s) ==
  rd.pc = "idle" /\ rd' # rd /\ rd' = closeReturns(s)

\* C25: a second sequential call of close on a session returns immediately:
\* the step changes nothing of any session (the closed signal, the error
\* channel and the transport stay as the first close left them, closed
\* once) and nothing of the APIClient, no call of close ever panics with
\* "close of closed channel", and both goroutines had returned (wg = 0)
\* before the second call returned.
C25_SecondCloseNoOp ==
  /\ [](panic # "close of closed channel")
  /\ [][\A s \in Sessions :
         SecondCloseReturns(s) =>
           /\ sess' = sess /\ api' = api /\ panic' = "none"
           /\ sess[s].closed /\ sess[s].err = "closed"
           /\ sess[s].ws = "closed"
           /\ sess[s].ping = "done" /\ sess[s].ka = "done"
           /\ sess[s].wg = 0]_vars

\* close was called a second time on session 1 and has returned, while the
\* APIClient holds the session created after it.
C25_Witness ==
  /\ rd = closeReturns(1) /\ sess[1].closed /\ sess[1].wg = 0
  /\ api.ws = 2 /\ ~sess[2].closed /\ panic = "none"

\* ------------------------------------------------------------------- C26
\* C26: however the ConnectWebsocket, CloseWebsocket and ReconnectWebsocket
\* calls on the APIClient and the calls of close interleave, each session's
\* closed signal is broadcast once at most, and its transport and its error
\* channel are closed once at most: the signal is closed only by the step
\* of close that finds it open, the transport and the error channel only
\* by the last step of that close, which finds both open, none of them is
\* ever open again, and no close of a closed channel panics.
C26_ClosedOnce ==
  /\ [](panic # "close of closed channel")
  /\ [][\A s \in Sessions :
         /\ (~sess[s].closed /\ sess'[s].closed)
              => /\ api.pc = "close" /\ api.ws = s /\ api'.pc = "wait"
                 /\ sess[s].ws = "open" /\ sess[s].err = "open"
         /\ (sess[s].err # "closed" /\ sess'[s].err = "closed")
              => /\ api.pc = "closing" /\ api.ws = s
                 /\ sess[s].closed /\ sess[s].err = "open"
                 /\ sess[s].ws = "open" /\ sess'[s].ws = "closed"
         /\ (sess[s].ws # "closed" /\ sess'[s].ws = "closed")
              => sess'[s].err = "closed" /\ sess[s].err = "open"
         /\ sess[s].closed => sess'[s].closed
         /\ sess[s].err = "closed" => sess'[s].err = "closed"
         /\ sess[s].ws = "closed" => sess'[s].ws = "closed"]_vars
  /\ [][(api.pc = "closing" /\ api'.pc # "closing")
         => sess[api.ws].err = "open" /\ sess[api.ws].ws = "open"]_vars
  /\ [][(api.pc = "close" /\ api'.pc = "wait") => ~sess[api.ws].closed]_vars

\* CloseWebsocket has broadcast the closed signal of the second session and
\* waits for its goroutines; the first session was closed by an earlier
\* call and close was called on it once more.
C26_Witness ==
  /\ api.op = "CloseWebsocket" /\ api.pc = "wait" /\ api.ws = 2
  /\ sess[2].closed /\ sess[2].err = "open" /\ sess[2].ws = "open"
  /\ sess[1].err = "closed" /\ sess[1].ws = "closed"
  /\ rd = closeReturns(1)

\* ------------------------------------------------------------------- C27
\* C27: every Read that begins on a session after close has returned on it
\* (the error channel is closed, the last statement of close) returns a
\* non-nil error and has not read the transport.
C27_ReadAfterCloseFails ==
  [][\A s \in Sessions :
       (/\ rd.pc = "idle" /\ rd' # rd /\ rd'.call = "Read" /\ rd'.s = s
        /\ sess[s].err = "closed")
         => (rd'.pc = "idle" /\ rd'.err # nil /\ ~rd'.read)]_vars

\* ------------------------------------------------------------------- C28
\* A Read of session s returns, in this step, the failure whose text is msg.
ReadReceives(s, msg) ==
  /\ rd.pc = "idle" /\ rd'.pc = "idle" /\ rd'.s = s /\ ~rd'.read
  /\ rd'.err = <<"connection broken", msg>>

\* C28: a goroutine whose ping or keep-alive write has failed stays in its
\* send on the error channel: it pings or writes nothing more (its log of
\* attempts and its nonce stay as they are) and does not return on the
\* closed signal, and the only step that takes it out of the send is a
\* Read that receives its error, after which it is back in its select.
C28_BlockedUntilRead ==
  [][\A s \in Sessions :
       /\ sess[s].ping = "send"
            => /\ sess'[s].nonceLog = sess[s].nonceLog
               /\ sess'[s].nonce = sess[s].nonce
               /\ \/ sess'[s].ping = "send"
                  \/ /\ sess'[s].ping = "select"
                     /\ ReadReceives(s, "unable to ping signalr")
       /\ sess[s].ka = "send"
            => /\ sess'[s].kaLog = sess[s].kaLog
               /\ \/ sess'[s].ka = "send"
                     /\ sess'[s].currentNonce = sess[s].currentNonce
                  \/ /\ sess'[s].ka = "select"
                     /\ ReadReceives(s, "unable to ping WSS")]_vars

\* The ping goroutine is still in its send after the closed signal was
\* broadcast and the keep-alive goroutine has returned on it, and a Read
\* has received the keep-alive goroutine's failure before.
C28_Witness ==
  \E s \in Sessions :
    /\ sess[s].ping = "send" /\ sess[s].closed
    /\ sess[s].ka = "done" /\ sess[s].currentNonce = 2
    /\ sess[s].kaLog = <<1>>
    /\ api.pc = "wait" /\ api.ws = s

\* ------------------------------------------------------------------- C29
\* close has returned on session s: signal, transport and error channel are
\* closed and both goroutines have returned.
FullyClosed(s) ==
  /\ sess[s].closed /\ sess[s].ws = "closed" /\ sess[s].err = "closed"
  /\ sess[s].ping = "done" /\ sess[s].ka = "done"

\* C29: whenever no call of the APIClient is in progress, the session it
\* holds, if it holds one, is the one created last and nothing of it is
\* closed; and at any time every session the client created other than the
\* one it holds is closed altogether, so that one session at most has an
\* open transport or an unbroadcast closed signal.
C29_OneLiveSession ==
  /\ (api.op = "none" /\ api.ws # 0)
       => /\ api.ws = api.n
          /\ ~sess[api.ws].closed
          /\ sess[api.ws].ws = "open" /\ sess[api.ws].err = "open"
  /\ \A s \in 1..api.n : s # api.ws => FullyClosed(s)
  /\ Cardinality({s \in 1..api.n : ~sess[s].closed}) <= 1
  /\ Cardinality({s \in 1..api.n : sess[s].ws = "open"}) <= 1

\* ConnectWebsocket has returned the second session, which the client
\* already held, after the first was closed; the second has pinged once.
C29_Witness ==
  /\ api.op = "none" /\ api.ws = 2 /\ FullyClosed(1)
  /\ api.last.op = "ConnectWebsocket" /\ api.last.ws = 2 /\ ~api.last.hs
  /\ Len(sess[2].nonceLog) > Len(sess[1].nonceLog)

\* ------------------------------------------------------------------- C30
\* The call in its start step returns a failure.
StartFails ==
  api.pc = "start" /\ api'.op = "none" /\ api'.last.err # nil

\* The last call returned from a handshake whose start step failed.
StartFailed ==
  /\ api.op = "none" /\ api.last.hs /\ api.last.err # nil
  /\ Len(api.steps) = 4

\* C30: when the start step fails, the transport the connect step opened
\* is open and stays open as the call returns "unable to connect
\* websocket: unable to start": the step creates no session and changes
\* none, the client holds none and the call returns none, so that no
\* session has the transport; and it is still open for as long as no
\* other handshake begins.
C30_TransportLeftOpen ==
  /\ [][StartFails =>
         /\ api.conn = "open" /\ api'.conn = "open"
         /\ sess' = sess /\ api'.n = api.n
         /\ api'.ws = 0 /\ api'.last.ws = 0
         /\ api'.last.err[1] = "unable to connect websocket"
         /\ api'.last.err[2] = "unable to start"
         /\ api'.steps = HandshakeSteps]_vars
  /\ [](StartFailed => (api.conn = "open" /\ api.ws = 0))

\* ReconnectWebsocket closed the first session and its handshake failed in
\* the start step on a reply other than "started".
C30_Witness ==
  /\ StartFailed /\ api.last.op = "ReconnectWebsocket"
  /\ api.reply = "pong" /\ api.conn = "open"
  /\ api.n = 1 /\ FullyClosed(1)

====
